---- MODULE Spec2Model ----
(***************************************************************************)
(* Model of the hwpx-rust table renderer (viewer/markdown/.../table.rs)    *)
(* and of the break-aware text segmenter embedded in fill_cell_content.    *)
(*                                                                         *)
(* Text is a sequence of one-character strings.  A break token is a single *)
(* element: "<br>" in HTML flavour, " " in plain flavour.                  *)
(***************************************************************************)
EXTENDS Integers, Sequences, FiniteSets, TLC

(* ------------------------------ bounds -------------------------------- *)
MaxLen == 5        \* longest text run handed to the segmenter
MaxMarks == 2      \* longest control_char_positions list
MaxDim == 2        \* largest declared row/column count and cell address
MaxSpan == 2       \* largest row/column span of a single-cell table
MaxCells == 2      \* most cells of a multi-cell table
MaxRowCells == 3   \* most cells of a table whose cells share one row address
MaxCover == 2      \* largest side of a fully covered table

(* --------------------------- generic helpers -------------------------- *)
Min(a, b) == IF a < b THEN a ELSE b

RECURSIVE SeqsUpTo(_, _)
SeqsUpTo(S, n) ==
    IF n = 0 THEN {<<>>}
    ELSE LET prev == SeqsUpTo(S, n - 1)
         IN  prev \cup {Append(s, x) : s \in {t \in prev : Len(t) = n - 1}, x \in S}

(* ------------------------- segmenter: data ---------------------------- *)
Letters == <<"A", "B", "C", "D", "E", "F", "G", "H", "I", "J", "K", "L">>

\* ControlChar codes: the two break kinds and one representative other code
PARA_BREAK == "PARA_BREAK"
LINE_BREAK == "LINE_BREAK"
OTHER_CTRL == "TAB"
CtrlCodes == {PARA_BREAK, LINE_BREAK, OTHER_CTRL}

SegTexts ==
    {SubSeq(Letters, 1, n) : n \in 0..MaxLen} \cup {<<" ", "A", " ">>}

\* break markers at every offset up to one beyond the longest text, and one
\* marker of another kind (its offset is never read)
SegMarkers ==
    [position : 0..(MaxLen + 1), code : {PARA_BREAK, LINE_BREAK}]
        \cup {[position |-> 0, code |-> OTHER_CTRL]}

SegMarks == SeqsUpTo(SegMarkers, MaxMarks)

(* ------------------------- segmenter: code ---------------------------- *)
IsBreak(pos) == pos.code = PARA_BREAK \/ pos.code = LINE_BREAK

\* control_char_positions.iter().any(|pos| code is PARA_BREAK or LINE_BREAK)
HasBreaks(marks) == \E i \in 1..Len(marks) : IsBreak(marks[i])

\* .filter(...) keeping the break markers, in list order
RECURSIVE FilterBreaks(_)
FilterBreaks(marks) ==
    IF marks = <<>> THEN <<>>
    ELSE IF IsBreak(Head(marks))
         THEN <<Head(marks)>> \o FilterBreaks(Tail(marks))
         ELSE FilterBreaks(Tail(marks))

\* stable insertion of m into a list sorted by position (after equal keys)
RECURSIVE InsertByPosition(_, _)
InsertByPosition(sorted, m) ==
    IF sorted = <<>> THEN <<m>>
    ELSE IF Head(sorted).position <= m.position
         THEN <<Head(sorted)>> \o InsertByPosition(Tail(sorted), m)
         ELSE <<m>> \o sorted

\* sort_by_key(|pos| pos.position): stable
RECURSIVE SortByPosition(_)
SortByPosition(marks) ==
    IF marks = <<>> THEN <<>>
    ELSE InsertByPosition(SortByPosition(SubSeq(marks, 1, Len(marks) - 1)),
                          marks[Len(marks)])

SortedPositions_Unsorted(marks) == FilterBreaks(marks)

SortedPositions(marks) == SortByPosition(FilterBreaks(marks))

\* the token pushed at a break: "<br>" if options.use_html == Some(true), else ' '
BreakToken(html) == IF html THEN "<br>" ELSE " "

\* text.chars().skip(from).take(n)
SkipTake(text, from, n) == SubSeq(text, from + 1, Min(from + n, Len(text)))

\* the fast path: push_str(text) as it is
NoBreakText_Trimmed(text) ==
    IF text # <<>> /\ Head(text) = " " THEN Tail(text) ELSE text

NoBreakText(text) == text

\* text pushed before the break token of one marker
TextBefore_StrictEnd(text, last, position) ==
    IF position > last /\ position < Len(text)
    THEN SkipTake(text, last, position - last)
    ELSE <<>>

TextBefore(text, last, position) ==
    IF position > last /\ position <= Len(text)
    THEN SkipTake(text, last, position - last)
    ELSE <<>>

\* last_char_pos after one marker
NextCursor_NoConsume(text, position) ==
    IF position >= Len(text) THEN Len(text) ELSE position

NextCursor(text, position) ==
    IF position >= Len(text) THEN Len(text) ELSE position + 1

\* one iteration of `for pos in sorted_positions`
SegStep(st, text, pos, html) ==
    [out  |-> st.out \o TextBefore(text, st.last, pos.position) \o <<BreakToken(html)>>,
     last |-> NextCursor(text, pos.position)]

\* the text pushed after the loop
TextAfter(text, last) ==
    IF last < Len(text) THEN SkipTake(text, last, Len(text)) ELSE <<>>

RECURSIVE SegLoop(_, _, _, _)
SegLoop(st, text, sorted, html) ==
    IF sorted = <<>> THEN st
    ELSE SegLoop(SegStep(st, text, Head(sorted), html), text, Tail(sorted), html)

\* what one ParaText record contributes to para_text_result
SegmentText(text, marks, html) ==
    IF ~HasBreaks(marks) THEN NoBreakText(text)
    ELSE LET st == SegLoop([out |-> <<>>, last |-> 0], text, SortedPositions(marks), html)
         IN  st.out \o TextAfter(text, st.last)

(* --------------------------- table: data ------------------------------ *)
U16_MAX == 65535

\* a ParagraphRecord::ParaText and a one-record Paragraph
ParaText(t, marks) == [kind |-> "ParaText", text |-> t, control_char_positions |-> marks]
OnePara(t) == <<ParaText(t, <<>>)>>

\* a TableCell: cell_attributes and the cell's paragraphs (each a list of records)
Cell(r, c, rs, cs, paras) ==
    [row_address |-> r, col_address |-> c, row_span |-> rs, col_span |-> cs,
     paragraphs |-> paras]

(* ------------------------- table: cell content ------------------------ *)
\* str::trim().is_empty(): only white space
IsBlank(s) == \A i \in 1..Len(s) : s[i] \in {" ", "\n", "\t"}

RECURSIVE Concat(_)
Concat(parts) == IF parts = <<>> THEN <<>> ELSE Head(parts) \o Concat(Tail(parts))

\* parts.join(sep)
RECURSIVE Join(_, _)
Join(parts, sep) ==
    IF parts = <<>> THEN <<>>
    ELSE IF Len(parts) = 1 THEN Head(parts)
    ELSE Head(parts) \o sep \o Join(Tail(parts), sep)

\* str::replace(from, to) for a one-character pattern; `to` is a character list
RECURSIVE Replace(_, _, _)
Replace(s, from, to) ==
    IF s = <<>> THEN <<>>
    ELSE (IF Head(s) = from THEN to ELSE <<Head(s)>>) \o Replace(Tail(s), from, to)

\* get_cell_content: the non-blank ParaText texts of the cell, joined by " "
RECURSIVE NonBlankTexts(_)
NonBlankTexts(records) ==
    IF records = <<>> THEN <<>>
    ELSE LET rec == Head(records)
         IN  (IF rec.kind = "ParaText" /\ ~IsBlank(rec.text) THEN <<rec.text>> ELSE <<>>)
                 \o NonBlankTexts(Tail(records))

get_cell_content(cell) == Join(NonBlankTexts(Concat(cell.paragraphs)), <<" ">>)

\* fill_cell_content, one paragraph: para_text_result over its ParaText records
RECURSIVE ParaTextResult(_, _)
ParaTextResult(records, html) ==
    IF records = <<>> THEN <<>>
    ELSE LET rec == Head(records)
         IN  (IF rec.kind = "ParaText"
              THEN SegmentText(rec.text, rec.control_char_positions, html)
              ELSE <<>>) \o ParaTextResult(Tail(records), html)

HasParaText(records) == \E i \in 1..Len(records) : records[i].kind = "ParaText"

\* fill_cell_content: cell_parts, paragraph by paragraph from index idx on
RECURSIVE CellParts(_, _, _)
CellParts(paras, idx, html) ==
    IF idx > Len(paras) THEN <<>>
    ELSE LET r == ParaTextResult(paras[idx], html)
         IN  (IF HasParaText(paras[idx]) /\ ~IsBlank(r) THEN <<r>> ELSE <<>>)
                 \o (IF idx < Len(paras) THEN << <<" ">> >> ELSE <<>>)
                 \o CellParts(paras, idx + 1, html)

\* fill_cell_content: cell_content, with pipes escaped and " " for an empty cell
EscapePipe(s) == Replace(s, "|", <<"\\", "|">>)

fill_cell_text(cell, html) ==
    LET cell_text == Concat(CellParts(cell.paragraphs, 1, html))
    IN  IF cell_text = <<>> THEN <<" ">> ELSE EscapePipe(cell_text)

(* --------------------------- table: ordering -------------------------- *)
\* saturating_sub
SatSub_Plain(a, b) == a - b

SatSub(a, b) == IF a >= b THEN a - b ELSE 0

RECURSIVE SeqMin(_)
SeqMin(s) == IF Len(s) = 1 THEN s[1] ELSE Min(s[1], SeqMin(Tail(s)))

MinRow(cells) == SeqMin([i \in 1..Len(cells) |-> cells[i].row_address])
MinCol(cells) == SeqMin([i \in 1..Len(cells) |-> cells[i].col_address])

\* key comparison (row_address, col_address) <= (row_address, col_address)
KeyLeq(a, b) ==
    \/ a.row_address < b.row_address
    \/ a.row_address = b.row_address /\ a.col_address <= b.col_address

\* stable insertion of index i into an index list sorted by cell key
RECURSIVE InsertByKey(_, _, _)
InsertByKey(cells, sorted, i) ==
    IF sorted = <<>> THEN <<i>>
    ELSE IF KeyLeq(cells[Head(sorted)], cells[i])
         THEN <<Head(sorted)>> \o InsertByKey(cells, Tail(sorted), i)
         ELSE <<i>> \o sorted

RECURSIVE SortPrefix(_, _)
SortPrefix(cells, n) ==
    IF n = 0 THEN <<>> ELSE InsertByKey(cells, SortPrefix(cells, n - 1), n)

\* sorted_cells: the cells' input indices after sort_by_key (stable)
SortedCells(cells) == SortPrefix(cells, Len(cells))

(* ---------------------------- table: HTML ----------------------------- *)
Positions(R, C) == (0..(R - 1)) \X (0..(C - 1))

\* covered[r][c] = true over the cell's span, clipped to the declared grid
MarkCovered(covered, row_idx, col_idx, rs, cs, R, C) ==
    [p \in DOMAIN covered |->
        \/ covered[p]
        \/ /\ row_idx <= p[1] /\ p[1] < Min(row_idx + rs, R)
           /\ col_idx <= p[2] /\ p[2] < Min(col_idx + cs, C)]

\* the skip test of a cell whose anchor is already covered
IsCovered(covered, row_idx, col_idx, C) ==
    col_idx < C /\ covered[<<row_idx, col_idx>>]

\* the indices of covered[r][c] = true: the two loops over the cell's span
CoveredRange_Unclipped(row_idx, col_idx, rs, cs, R, C) ==
    (row_idx..(row_idx + rs - 1)) \X (col_idx..(col_idx + cs - 1))

CoveredRange(row_idx, col_idx, rs, cs, R, C) ==
    (row_idx..(Min(row_idx + rs, R) - 1)) \X (col_idx..(Min(col_idx + cs, C) - 1))

\* the index of the covered[row_idx][col_idx] read by the skip test: the
\* grid is read only when col_idx < col_count
CoveredRead(row_idx, col_idx, C) ==
    IF col_idx < C THEN {<<row_idx, col_idx>>} ELSE {}

\* one cell of `for cell in &row_cells`; st = [covered, tds, has_content,
\* touched], touched being the indices at which the grid was read or written
HtmlCell(st, cells, i, row_idx, min_col, R, C) ==
    LET cell    == cells[i]
        col_idx == SatSub(cell.col_address, min_col)
        content == get_cell_content(cell)
        read    == CoveredRead(row_idx, col_idx, C)
    IN  IF IsCovered(st.covered, row_idx, col_idx, C)
        THEN [st EXCEPT !.touched = @ \cup read]
        ELSE [covered |-> MarkCovered(st.covered, row_idx, col_idx,
                                      cell.row_span, cell.col_span, R, C),
              tds |-> Append(st.tds, [content |-> content, col_idx |-> col_idx,
                                      col_span |-> cell.col_span,
                                      row_span |-> cell.row_span, src |-> i]),
              has_content |-> st.has_content \/ ~IsBlank(content),
              touched |-> st.touched \cup read
                              \cup CoveredRange(row_idx, col_idx, cell.row_span,
                                                cell.col_span, R, C)]

RECURSIVE HtmlRowCells(_, _, _, _, _, _, _)
HtmlRowCells(st, cells, row_cells, row_idx, min_col, R, C) ==
    IF row_cells = <<>> THEN st
    ELSE HtmlRowCells(HtmlCell(st, cells, Head(row_cells), row_idx, min_col, R, C),
                      cells, Tail(row_cells), row_idx, min_col, R, C)

\* the attributes of a <td>: a span attribute only when the span is > 1
TdAttrs_NoRowspan(col_span, row_span) ==
    IF col_span > 1 THEN << <<"colspan", col_span>> >> ELSE <<>>

TdAttrs(col_span, row_span) ==
    (IF col_span > 1 THEN << <<"colspan", col_span>> >> ELSE <<>>)
        \o (IF row_span > 1 THEN << <<"rowspan", row_span>> >> ELSE <<>>)

\* <td{attrs}>{cell_html}</td>; src and col_idx record where the td comes from
Td(t) == [attrs |-> TdAttrs(t.col_span, t.row_span),
          html |-> Replace(t.content, "\n", <<"<br>">>),
          src |-> t.src, col_idx |-> t.col_idx]

\* is a row with these collected cells written out
RowEmitted_Always(st) == TRUE

RowEmitted(st) == st.has_content

\* `for row_idx in 0..row_count`; acc = [covered, rows, touched]
RECURSIVE HtmlRows(_, _, _, _, _, _, _, _)
HtmlRows(acc, cells, sorted, row_idx, min_row, min_col, R, C) ==
    IF row_idx >= R THEN acc
    ELSE LET row_cells ==
                 SelectSeq(sorted,
                     LAMBDA i : SatSub(cells[i].row_address, min_row) = row_idx)
             st == HtmlRowCells([covered |-> acc.covered, tds |-> <<>>,
                                 has_content |-> FALSE, touched |-> acc.touched],
                                cells, row_cells, row_idx, min_col, R, C)
             row == [row_idx |-> row_idx,
                     tds |-> [k \in 1..Len(st.tds) |-> Td(st.tds[k])]]
         IN  HtmlRows([covered |-> st.covered,
                       rows |-> IF RowEmitted(st) THEN Append(acc.rows, row)
                                ELSE acc.rows,
                       touched |-> st.touched],
                      cells, sorted, row_idx + 1, min_row, min_col, R, C)

\* convert_table_to_html: <table> holding one <tr> per emitted row
convert_table_to_html(t) ==
    LET R == t.row_count
        C == t.col_count
        cells == t.cells
        min_row == IF cells = <<>> THEN 0 ELSE MinRow(cells)
        min_col == IF cells = <<>> THEN 0 ELSE MinCol(cells)
        acc == HtmlRows([covered |-> [p \in Positions(R, C) |-> FALSE], rows |-> <<>>,
                         touched |-> {}],
                        cells, SortedCells(cells), 0, min_row, min_col, R, C)
    IN  [kind |-> "html", rows |-> acc.rows, touched |-> acc.touched]

(* -------------------------- table: Markdown --------------------------- *)
\* grid entries: None, or Some(content); src is the input index of the cell
\* whose content was written there (0 for a blank filler of a merged cell)
None == [filled |-> FALSE, content |-> <<>>, src |-> 0]
Some(content, src) == [filled |-> TRUE, content |-> content, src |-> src]
Filler == Some(<<" ">>, 0)

\* fill_cell_content: the write into the grid (first writer wins) and the
\* blank fillers over the rest of the span
fill_cell_content(grid, cell, i, row, col, R, C, html) ==
    IF grid[<<row, col>>].filled THEN grid
    ELSE [p \in DOMAIN grid |->
            IF p = <<row, col>> THEN Some(fill_cell_text(cell, html), i)
            ELSE IF grid[p].filled THEN grid[p]
            ELSE IF \/ /\ p[1] = row
                       /\ col + 1 <= p[2] /\ p[2] < Min(col + cell.col_span, C)
                    \/ /\ row + 1 <= p[1] /\ p[1] < Min(row + cell.row_span, R)
                       /\ col <= p[2] /\ p[2] < Min(col + cell.col_span, C)
                 THEN Filler
                 ELSE grid[p]]

\* the indices at which fill_cell_content reads or writes the grid: the test
\* of grid[row][col], then the fillers right of it and below it
FillRange(grid, cell, row, col, R, C) ==
    {<<row, col>>}
        \cup (IF grid[<<row, col>>].filled THEN {}
              ELSE ({row} \X ((col + 1)..(Min(col + cell.col_span, C) - 1)))
                       \cup (((row + 1)..(Min(row + cell.row_span, R) - 1))
                                 \X (col..(Min(col + cell.col_span, C) - 1))))

\* does this cell start a new inferred row
StartsNewRow(col_address, last_col) ==
    col_address <= last_col /\ last_col # U16_MAX

\* the all_same_row branch: one cell; st = [grid, row_index, last_col, touched]
InferStep(st, cells, i, min_col, R, C, html) ==
    LET cell == cells[i]
        col  == SatSub(cell.col_address, min_col)
        row  == IF StartsNewRow(cell.col_address, st.last_col)
                THEN (IF st.row_index + 1 >= R THEN R - 1 ELSE st.row_index + 1)
                ELSE st.row_index
    IN  [grid |-> IF col < C
                  THEN fill_cell_content(st.grid, cell, i, row, col, R, C, html)
                  ELSE st.grid,
         row_index |-> row,
         last_col |-> cell.col_address,
         touched |-> IF col < C
                     THEN st.touched \cup FillRange(st.grid, cell, row, col, R, C)
                     ELSE st.touched]

RECURSIVE InferRows(_, _, _, _, _, _, _)
InferRows(st, cells, order, min_col, R, C, html) ==
    IF order = <<>> THEN st
    ELSE InferRows(InferStep(st, cells, Head(order), min_col, R, C, html),
                   cells, Tail(order), min_col, R, C, html)

\* the other branch: `for cell in &table.cells`, placed by address;
\* st = [grid, touched]
RECURSIVE PlaceByAddress(_, _, _, _, _, _, _, _)
PlaceByAddress(st, cells, i, min_row, min_col, R, C, html) ==
    IF i > Len(cells) THEN st
    ELSE LET row == SatSub(cells[i].row_address, min_row)
             col == SatSub(cells[i].col_address, min_col)
         IN  PlaceByAddress(
                 IF row < R /\ col < C
                 THEN [grid |-> fill_cell_content(st.grid, cells[i], i, row, col,
                                                  R, C, html),
                       touched |-> st.touched
                                       \cup FillRange(st.grid, cells[i], row, col, R, C)]
                 ELSE st,
                 cells, i + 1, min_row, min_col, R, C, html)

\* format!("| {} |", row_data.join(" | "))
RowLine(row_data) == <<"|", " ">> \o Join(row_data, <<" ", "|", " ">>) \o <<" ", "|">>

\* format!("|{}|", "---" joined by "|")
SeparatorLine(C) ==
    <<"|">> \o Join([c \in 1..C |-> <<"-", "-", "-">>], <<"|">>) \o <<"|">>

\* row_data: the row's grid entries, " " where the grid holds None
RowData(grid, row_idx, C) ==
    [c \in 1..C |-> IF grid[<<row_idx, c - 1>>].filled
                    THEN grid[<<row_idx, c - 1>>].content ELSE <<" ">>]

RECURSIVE TableLines(_, _, _, _)
TableLines(grid, row_idx, R, C) ==
    IF row_idx >= R THEN <<>>
    ELSE << RowLine(RowData(grid, row_idx, C)) >>
             \o (IF row_idx = 0 THEN << SeparatorLine(C) >> ELSE <<>>)
             \o TableLines(grid, row_idx + 1, R, C)

\* convert_table_to_markdown_simple
convert_table_to_markdown_simple(t, html) ==
    LET R == t.row_count
        C == t.col_count
        cells == t.cells
        min_row == IF cells = <<>> THEN 1 ELSE MinRow(cells)
        min_col == IF cells = <<>> THEN 1 ELSE MinCol(cells)
        all_same_row == \A i \in 1..Len(cells) : cells[i].row_address = min_row
        empty == [p \in Positions(R, C) |-> None]
        filled == IF all_same_row
                  THEN InferRows([grid |-> empty, row_index |-> 0,
                                  last_col |-> U16_MAX, touched |-> {}],
                                 cells, SortedCells(cells), min_col, R, C, html)
                  ELSE PlaceByAddress([grid |-> empty, touched |-> {}],
                                      cells, 1, min_row, min_col, R, C, html)
        grid == filled.grid
        lines == << <<>> >> \o TableLines(grid, 0, R, C) \o << <<>> >>
    IN  [kind |-> "markdown", grid |-> grid, lines |-> lines,
         text |-> Join(lines, <<"\n">>),
         touched |-> filled.touched \cup Positions(R, C)]

(* ----------------------- table: mode selection ------------------------ *)
\* format!("\n\n[Table: {row_count}x{col_count}]\n\n") and the Empty Table form
Placeholder(label, R, C) ==
    [kind |-> "placeholder", label |-> label, rows |-> R, cols |-> C]

has_merged_cells(cells) ==
    \E i \in 1..Len(cells) : cells[i].col_span > 1 \/ cells[i].row_span > 1

\* options.use_html == Some(true) || has_merged_cells
UsesHtml_FlagOnly(t, html) == html

UsesHtml(t, html) == html \/ has_merged_cells(t.cells)

\* table.cells.is_empty()
IsEmptyTable_Never(t) == FALSE

IsEmptyTable(t) == t.cells = <<>>

\* convert_table_to_markdown
convert_table_to_markdown(t, html) ==
    IF t.row_count = 0 \/ t.col_count = 0
    THEN Placeholder("Table", t.row_count, t.col_count)
    ELSE IF IsEmptyTable(t)
    THEN Placeholder("Empty Table", t.row_count, t.col_count)
    ELSE IF UsesHtml(t, html)
    THEN convert_table_to_html(t)
    ELSE convert_table_to_markdown_simple(t, html)

(* ----------------------------- state ---------------------------------- *)
VARIABLES
    text,                    \* the ParaText record's text
    control_char_positions,  \* its markers
    use_html,                \* options.use_html == Some(true)
    sorted_positions,        \* markers still to be processed by the loop
    last_char_pos,           \* the cursor
    para_text_result,        \* the output built so far
    seg_pc,                  \* "idle", "start", "loop", "done"
    table,                   \* the Table handed to convert_table_to_markdown
    output,                  \* what convert_table_to_markdown returned
    tbl_pc,                  \* "idle", "start", "done"
    events,                  \* what reader.read_event() delivers, in order
    reader_pos,              \* number of events read so far
    paragraphs,              \* the Section's paragraphs pushed so far
    current_text,            \* text of the open top-level paragraph
    in_text,
    in_table,
    in_cell,
    in_caption,
    in_picture,
    current_image_ref,       \* None or the last binaryItemIDRef seen
    table_rows,              \* closed rows of the open table
    current_row,             \* closed cells of the open row
    current_cell,            \* the HwpxCell being filled
    table_caption,
    para_depth,
    overflow_checks,         \* the build traps integer overflow (debug profile)
    parse_result,            \* "idle", "running", "Ok", "Err", "panic"
    section,                 \* None, or the Section's paragraphs once returned
    data,                    \* the bytes handed to detect_format / ChartData::parse
    format,                  \* what detect_format returned
    det_pc,                  \* "idle", "start", "done"
    offset,                  \* read offset of parse_chart_obj
    stored_type_id,
    seen_types,
    chart,                   \* what ChartData::parse returned
    chart_pc,                \* "idle", "start", "obj", "name", "version", "make", "done"
    container,               \* the HWPX archive handed to hwpx::parse
    document,                \* the HwpDocument under construction
    sections,                \* the sections parsed so far by parse_sections
    doc_result,              \* what hwpx::parse returned
    doc_pc,                  \* the stage hwpx::parse is at
    base64_data,             \* the image, base64 encoded
    image_output_dir,        \* None, or the directory images are saved to
    bindata_id,              \* the BinData id of the image
    bin_data,                \* doc_info.bin_data: the Embedding records
    fs_fails,                \* creating the directory or writing the file fails
    markdown,                \* what format_image_markdown returned
    img_pc                   \* "idle", "start", "done"

segVars == <<text, control_char_positions, sorted_positions,
             last_char_pos, para_text_result, seg_pc>>
tblVars == <<table, output, tbl_pc>>
parseVars == <<events, reader_pos, paragraphs, current_text, in_text, in_table,
               in_cell, in_caption, in_picture, current_image_ref, table_rows,
               current_row, current_cell, table_caption, para_depth,
               overflow_checks, parse_result, section>>
detVars == <<data, format, det_pc>>
chartVars == <<offset, stored_type_id, seen_types, chart, chart_pc>>
docVars == <<container, document, sections, doc_result, doc_pc>>
imgVars == <<base64_data, image_output_dir, bindata_id, bin_data, fs_fails,
             markdown, img_pc>>
laterVars == <<parseVars, detVars, chartVars, docVars, imgVars>>
vars == <<segVars, tblVars, use_html, laterVars>>

NoTable == [row_count |-> 0, col_count |-> 0, cells |-> <<>>]
NoOutput == [kind |-> "none"]

\* Option<String> / Option<u16> values of the section parser
NoneVal == [some |-> FALSE]
SomeVal(v) == [some |-> TRUE, val |-> v]

\* HwpxCell::default()
HwpxCellDefault ==
    [text |-> <<>>, col_span |-> 1, row_span |-> 1,
     col_addr |-> NoneVal, row_addr |-> NoneVal]

\* the section parser before parse_section_xml is called
ParseIdle ==
    /\ events = <<>>
    /\ reader_pos = 0
    /\ paragraphs = <<>>
    /\ current_text = <<>>
    /\ in_text = FALSE
    /\ in_table = FALSE
    /\ in_cell = FALSE
    /\ in_caption = FALSE
    /\ in_picture = FALSE
    /\ current_image_ref = NoneVal
    /\ table_rows = <<>>
    /\ current_row = <<>>
    /\ current_cell = HwpxCellDefault
    /\ table_caption = <<>>
    /\ para_depth = 0
    /\ parse_result = "idle"
    /\ section = NoneVal

\* detect_format before it is called
DetIdle ==
    /\ format = "none"
    /\ det_pc = "idle"

\* ChartData::parse before it is called
ChartIdle ==
    /\ offset = 0
    /\ stored_type_id = 0
    /\ seen_types = {}
    /\ chart = NoneVal
    /\ chart_pc = "idle"

\* hwpx::parse before it is called
DocIdle ==
    /\ container = NoneVal
    /\ document = NoneVal
    /\ sections = <<>>
    /\ doc_result = NoneVal
    /\ doc_pc = "idle"

\* format_image_markdown before it is called
ImgIdle ==
    /\ base64_data = <<>>
    /\ image_output_dir = NoneVal
    /\ bindata_id = 0
    /\ bin_data = <<>>
    /\ fs_fails = FALSE
    /\ markdown = NoneVal
    /\ img_pc = "idle"

LaterIdle ==
    /\ ParseIdle
    /\ overflow_checks = FALSE
    /\ DetIdle
    /\ data = <<>>
    /\ ChartIdle
    /\ DocIdle
    /\ ImgIdle

(* ------------------------ segmenter: actions -------------------------- *)
InitSeg ==
    /\ text \in SegTexts
    /\ control_char_positions \in SegMarks
    /\ use_html \in BOOLEAN
    /\ sorted_positions = <<>>
    /\ last_char_pos = 0
    /\ para_text_result = <<>>
    /\ seg_pc = "start"
    /\ table = NoTable
    /\ output = NoOutput
    /\ tbl_pc = "idle"
    /\ LaterIdle

\* has_breaks test, the fast path, or the filter and sort before the loop
SegBegin ==
    /\ seg_pc = "start"
    /\ IF ~HasBreaks(control_char_positions)
       THEN /\ para_text_result' = para_text_result \o NoBreakText(text)
            /\ seg_pc' = "done"
            /\ UNCHANGED <<sorted_positions, last_char_pos>>
       ELSE /\ sorted_positions' = SortedPositions(control_char_positions)
            /\ last_char_pos' = 0
            /\ seg_pc' = "loop"
            /\ UNCHANGED para_text_result
    /\ UNCHANGED <<text, control_char_positions, use_html, tblVars, laterVars>>

\* one marker of the loop
SegMarker ==
    /\ seg_pc = "loop"
    /\ sorted_positions # <<>>
    /\ LET st == SegStep([out |-> para_text_result, last |-> last_char_pos],
                         text, Head(sorted_positions), use_html)
       IN  /\ para_text_result' = st.out
           /\ last_char_pos' = st.last
    /\ sorted_positions' = Tail(sorted_positions)
    /\ UNCHANGED <<text, control_char_positions, use_html, seg_pc, tblVars, laterVars>>

\* the remaining text after the last marker
SegTail ==
    /\ seg_pc = "loop"
    /\ sorted_positions = <<>>
    /\ para_text_result' = para_text_result \o TextAfter(text, last_char_pos)
    /\ seg_pc' = "done"
    /\ UNCHANGED <<text, control_char_positions, use_html, sorted_positions,
                   last_char_pos, tblVars, laterVars>>

NextSeg == SegBegin \/ SegMarker \/ SegTail

SpecSeg == InitSeg /\ [][NextSeg]_vars

(* -------------------------- table: inputs ----------------------------- *)
\* cell bodies: an empty cell, plain text, text with a pipe, text with a line
\* separator, text with a break marker, and a cell of two paragraphs
BlankBody == << OnePara(<<>>) >>
LetterBody(i) == << OnePara(<<Letters[i]>>) >>
Bodies ==
    { BlankBody,
      LetterBody(1),
      << OnePara(<<"A", "|", "B">>) >>,
      << OnePara(<<"A", "\n", "B">>) >>,
      << <<ParaText(<<"A", "B", "C">>, <<[position |-> 1, code |-> LINE_BREAK]>>)>> >>,
      << OnePara(<<"A">>), OnePara(<<"B">>) >> }

Dims == 0..MaxDim
Spans == 0..MaxSpan

Table(R, C, cells) == [row_count |-> R, col_count |-> C, cells |-> cells]

\* tables with no cell
InitEmpty ==
    \E R \in Dims, C \in Dims : table = Table(R, C, <<>>)

\* tables of one cell, over all addresses, spans and bodies
InitSingle ==
    \E R \in Dims, C \in Dims, ra \in Dims, ca \in Dims,
       rs \in Spans, cs \in Spans, b \in Bodies :
        table = Table(R, C, <<Cell(ra, ca, rs, cs, b)>>)

\* tables of several cells: addresses in a 2 x 2 block, unit, merged and zero
\* spans, each cell empty or holding its own letter
SpanKinds == << <<1, 1>>, <<1, 2>>, <<2, 1>>, <<0, 1>> >>
CellChoices == [ra : 0..1, ca : 0..1, sp : 1..Len(SpanKinds), blank : BOOLEAN]

InitMulti ==
    \E R \in 1..2, C \in 1..2, n \in 2..MaxCells :
        \E f \in [1..n -> CellChoices] :
            table = Table(R, C,
                        [i \in 1..n |->
                            Cell(f[i].ra, f[i].ca,
                                 SpanKinds[f[i].sp][1], SpanKinds[f[i].sp][2],
                                 IF f[i].blank THEN BlankBody ELSE LetterBody(i))])

\* tables whose cells all carry the same row address: unit spans, letters
InitSameRow ==
    \E R \in 1..2, C \in 1..2, ra \in 0..1, n \in 1..MaxRowCells :
        \E f \in [1..n -> 0..1] :
            table = Table(R, C, [i \in 1..n |-> Cell(ra, f[i], 1, 1, LetterBody(i))])

\* tables whose unit-span cells cover every position once: the cells in
\* row-major order or its reverse, rotated; one cell may hold special text
CoverBody(k, special) ==
    IF special[1] = k THEN special[2] ELSE LetterBody(k)

CoverCell(k, C, special) ==
    Cell((k - 1) \div C, (k - 1) % C, 1, 1, CoverBody(k, special))

CoverOrder(n, rot, rev) ==
    [j \in 1..n |-> LET k == ((j - 1 + rot) % n) + 1
                    IN  IF rev THEN n + 1 - k ELSE k]

InitCover ==
    \E R \in 1..MaxCover, C \in 1..MaxCover, rev \in BOOLEAN :
        \E rot \in 0..(R * C - 1), special \in (0..(R * C)) \X Bodies :
            table = Table(R, C,
                        [j \in 1..(R * C) |->
                            CoverCell(CoverOrder(R * C, rot, rev)[j], C, special)])

(* -------------------------- table: actions ---------------------------- *)
Init ==
    /\ \/ InitEmpty
       \/ InitSingle
       \/ InitMulti
       \/ InitSameRow
       \/ InitCover
    /\ use_html \in BOOLEAN
    /\ output = NoOutput
    /\ tbl_pc = "start"
    /\ text = <<>>
    /\ control_char_positions = <<>>
    /\ sorted_positions = <<>>
    /\ last_char_pos = 0
    /\ para_text_result = <<>>
    /\ seg_pc = "idle"
    /\ LaterIdle

\* one call of convert_table_to_markdown
ConvertTable ==
    /\ tbl_pc = "start"
    /\ output' = convert_table_to_markdown(table, use_html)
    /\ tbl_pc' = "done"
    /\ UNCHANGED <<table, use_html, segVars, laterVars>>

Next == ConvertTable

Spec == Init /\ [][Next]_vars

(* ------------------------ segmenter: claims --------------------------- *)
SegDone == seg_pc = "done"

\* C1: with no break marker in the list (in particular with the empty list)
\* the segmenter returns exactly the text: no token added, no character dropped.
C1_SegmenterIdentity ==
    (SegDone /\ ~HasBreaks(control_char_positions)) => para_text_result = text

C1_Witness ==
    SegDone /\ control_char_positions = <<>> /\ Len(text) >= 3

ScenarioText == <<"A", "B", "C", "D", "E">>
ScenarioMarks == <<[position |-> 1, code |-> LINE_BREAK],
                   [position |-> 3, code |-> LINE_BREAK]>>
InScenario == SegDone /\ text = ScenarioText /\ control_char_positions = ScenarioMarks

\* C2 as stated: "ABCDE" with LineBreak markers at 1 and 3 gives
\* "A" + break + "BC" + break + "DE".
C2_ScenarioAsStated ==
    InScenario =>
        para_text_result =
            <<"A", BreakToken(use_html), "B", "C", BreakToken(use_html), "D", "E">>

\* C2 amended: the character at each marker's offset is consumed, so the output
\* is "A" + break + "C" + break + "E".
C2_ScenarioConsumesMarkedChar ==
    InScenario =>
        para_text_result =
            <<"A", BreakToken(use_html), "C", BreakToken(use_html), "E">>

C2_Witness == InScenario

\* C3: a single LineBreak marker at offset = length(T) gives T followed by
\* exactly one break token and nothing after it; no character of T is consumed.
C3_TrailingBreak ==
    (SegDone /\ control_char_positions = <<[position |-> Len(text), code |-> LINE_BREAK]>>)
        => para_text_result = text \o <<BreakToken(use_html)>>

C3_Witness ==
    /\ SegDone
    /\ Len(text) >= 2
    /\ control_char_positions = <<[position |-> Len(text), code |-> LINE_BREAK]>>

ClampPosition(m, len) == [m EXCEPT !.position = Min(m.position, len)]
ClampMarks(marks, len) == [i \in 1..Len(marks) |-> ClampPosition(marks[i], len)]

\* C4: a break marker whose offset is beyond the text length acts as if its
\* offset were the text length: the output equals the output for the clamped
\* markers, so the text up to the end is emitted before the break token.
C4_BeyondEndTreatedAsEnd ==
    SegDone =>
        para_text_result =
            SegmentText(text, ClampMarks(control_char_positions, Len(text)), use_html)

(* -------------------------- table: claims ----------------------------- *)
TblDone == tbl_pc = "done"

AllSpansOne(cells) ==
    \A i \in 1..Len(cells) : cells[i].row_span = 1 /\ cells[i].col_span = 1

CellTextIs(cell, t) == cell.paragraphs = << OnePara(t) >>

\* the scenario's cells: columns 0, 1, 0 holding "A", "B", "C", one row address
IsRowScenario(t) ==
    /\ t.row_count = 2 /\ t.col_count = 2
    /\ Len(t.cells) = 3
    /\ AllSpansOne(t.cells)
    /\ \A i \in 1..3 : t.cells[i].row_address = t.cells[1].row_address
    /\ t.cells[1].col_address = 0 /\ CellTextIs(t.cells[1], <<"A">>)
    /\ t.cells[2].col_address = 1 /\ CellTextIs(t.cells[2], <<"B">>)
    /\ t.cells[3].col_address = 0 /\ CellTextIs(t.cells[3], <<"C">>)

\* C5: cells [col 0 "A", col 1 "B", col 0 "C"] with one row address, R=2, C=2,
\* give the Markdown grid row 0 = ["A","B"], row 1 = ["C", blank]: a new row
\* starts, in input order, where the column address does not increase.
C5_RowInferenceScenario ==
    (TblDone /\ ~use_html /\ IsRowScenario(table)) =>
        /\ output.kind = "markdown"
        /\ RowData(output.grid, 0, 2) = << <<"A">>, <<"B">> >>
        /\ RowData(output.grid, 1, 2) = << <<"C">>, <<" ">> >>

\* the position a cell is addressed at, relative to the smallest addresses
Anchor(cells, i) ==
    <<SatSub(cells[i].row_address, MinRow(cells)),
      SatSub(cells[i].col_address, MinCol(cells))>>

\* a cell claims its anchor and every position of its span
ClaimsPosition(cells, i, p) ==
    LET a == Anchor(cells, i)
    IN  \/ p = a
        \/ /\ a[1] <= p[1] /\ p[1] < a[1] + cells[i].row_span
           /\ a[2] <= p[2] /\ p[2] < a[2] + cells[i].col_span

\* row-major order, ties broken by input order
ComesBefore(cells, i, j) ==
    \/ cells[i].row_address < cells[j].row_address
    \/ /\ cells[i].row_address = cells[j].row_address
       /\ cells[i].col_address < cells[j].col_address
    \/ /\ cells[i].row_address = cells[j].row_address
       /\ cells[i].col_address = cells[j].col_address
       /\ i < j

\* the content of cell i is what the output shows at position p
RenderedAt(out, i, p) ==
    IF out.kind = "markdown" THEN out.grid[p].src = i
    ELSE \E r \in 1..Len(out.rows) :
            /\ out.rows[r].row_idx = p[1]
            /\ \E k \in 1..Len(out.rows[r].tds) :
                  /\ out.rows[r].tds[k].col_idx = p[2]
                  /\ out.rows[r].tds[k].src = i

\* C6: first writer wins, in the Markdown and in the HTML path: when two cells
\* claim the same grid position, the content of the later one (row-major
\* order, ties by input order) does not appear at that position.
C6_FirstWriterWins ==
    (TblDone /\ output.kind \in {"markdown", "html"}) =>
        \A p \in Positions(table.row_count, table.col_count) :
            \A i, j \in 1..Len(table.cells) :
                (/\ ComesBefore(table.cells, i, j)
                 /\ ClaimsPosition(table.cells, i, p)
                 /\ ClaimsPosition(table.cells, j, p))
                    => ~RenderedAt(output, j, p)

\* one cell at (0,0) spanning the whole 2 x 2 table
IsMergedSquare(t) ==
    /\ t.row_count = 2 /\ t.col_count = 2
    /\ Len(t.cells) = 1
    /\ t.cells[1].row_address = 0 /\ t.cells[1].col_address = 0
    /\ t.cells[1].row_span = 2 /\ t.cells[1].col_span = 2

RECURSIVE TdCount(_)
TdCount(rows) ==
    IF rows = <<>> THEN 0 ELSE Len(Head(rows).tds) + TdCount(Tail(rows))

OneSpanningTd(out) ==
    /\ out.kind = "html"
    /\ TdCount(out.rows) = 1
    /\ Len(out.rows) = 1
    /\ out.rows[1].row_idx = 0
    /\ out.rows[1].tds[1].attrs = << <<"colspan", 2>>, <<"rowspan", 2>> >>
    /\ out.rows[1].tds[1].src = 1

\* C7 as stated: one cell at (0,0) with row_span = col_span = 2 in a 2 x 2
\* table gives exactly one <td> with colspan="2" rowspan="2", in an emitted row.
C7_MergedSquareAsStated ==
    (TblDone /\ IsMergedSquare(table)) => OneSpanningTd(output)

\* C7 amended: the same, for a cell whose content is not blank.
C7_MergedSquareWithContent ==
    (TblDone /\ IsMergedSquare(table) /\ ~IsBlank(get_cell_content(table.cells[1])))
        => OneSpanningTd(output)

C7_Witness ==
    /\ TblDone /\ IsMergedSquare(table)
    /\ CellTextIs(table.cells[1], <<"A">>)
    /\ output.kind = "html"

\* unit-span cells whose addresses cover every position of the grid exactly once
CoversExactly(t) ==
    /\ t.row_count >= 1 /\ t.col_count >= 1
    /\ AllSpansOne(t.cells)
    /\ Len(t.cells) = t.row_count * t.col_count
    /\ \A p \in Positions(t.row_count, t.col_count) :
          \E i \in 1..Len(t.cells) :
              t.cells[i].row_address = p[1] /\ t.cells[i].col_address = p[2]

\* the lines of a text, split at the line separator
RECURSIVE SplitLines(_, _)
SplitLines(s, cur) ==
    IF s = <<>> THEN <<cur>>
    ELSE IF Head(s) = "\n" THEN <<cur>> \o SplitLines(Tail(s), <<>>)
    ELSE SplitLines(Tail(s), Append(cur, Head(s)))

\* the number of pipes of a line that are not escaped by a backslash
RECURSIVE PipeCount(_, _)
PipeCount(line, escaped) ==
    IF line = <<>> THEN 0
    ELSE (IF Head(line) = "|" /\ ~escaped THEN 1 ELSE 0)
            + PipeCount(Tail(line), Head(line) = "\\" /\ ~escaped)

\* a pipe-delimited line of exactly n cells
IsRowOf(line, n) ==
    /\ Len(line) >= 2
    /\ line[1] = "|" /\ line[Len(line)] = "|"
    /\ PipeCount(line, FALSE) = n + 1

\* the output text: an empty line, R row lines of C cells with the separator
\* after the first, an empty line
HasGridShape(out, R, C) ==
    LET ls == SplitLines(out.text, <<>>)
    IN  /\ Len(ls) = R + 3
        /\ ls[1] = <<>> /\ ls[R + 3] = <<>>
        /\ ls[3] = SeparatorLine(C)
        /\ \A k \in 2..(R + 2) : k # 3 => IsRowOf(ls[k], C)

\* C8: unit-span cells covering every position exactly once give a Markdown
\* output of exactly R data rows plus one separator row, each data row of
\* exactly C cells, every cell holding the content of its own originating cell.
C8_FullCoverGrid ==
    (TblDone /\ ~use_html /\ CoversExactly(table)) =>
        /\ output.kind = "markdown"
        /\ HasGridShape(output, table.row_count, table.col_count)
        /\ \A i \in 1..Len(table.cells) :
              output.grid[<<table.cells[i].row_address,
                            table.cells[i].col_address>>].src = i

NonDegenerate(t) == t.row_count >= 1 /\ t.col_count >= 1 /\ t.cells # <<>>

\* C9: a non-degenerate table is rendered by the HTML path exactly when HTML
\* was requested or some cell has row_span > 1 or col_span > 1, and by the
\* Markdown path otherwise.
C9_ModeSelection ==
    (TblDone /\ NonDegenerate(table)) =>
        /\ output.kind \in {"html", "markdown"}
        /\ output.kind = "html" <=>
              \/ use_html
              \/ \E i \in 1..Len(table.cells) :
                    table.cells[i].row_span > 1 \/ table.cells[i].col_span > 1

C9_Witness ==
    /\ TblDone /\ NonDegenerate(table) /\ ~use_html
    /\ \E i \in 1..Len(table.cells) : table.cells[i].col_span > 1
    /\ output.kind = "html"

\* no cell resolves to a position inside the declared grid
NoResolvableCell(t) ==
    \A i \in 1..Len(t.cells) :
        Anchor(t.cells, i) \notin Positions(t.row_count, t.col_count)

IsPlaceholderFor(out, t) ==
    out.kind = "placeholder" /\ out.rows = t.row_count /\ out.cols = t.col_count

MaxTblCells == 3   \* most cells of the first row of a parsed table
MaxTblRows == 2    \* most rows of a parsed table

(* ------------------- section parser: numeric types -------------------- *)
U16_MOD == 65536
DOT_UNIT == 1200
DOT_MAX == 80
DOT_MIN == 3
LINE_UNIT == 2400
LINE_MAX == 40
LINE_MIN == 2

\* the largest values of u8, u16 and u32, in decimal digits
U8_DIGITS == <<"2", "5", "5">>
U16_DIGITS == <<"6", "5", "5", "3", "5">>
U32_DIGITS == <<"4", "2", "9", "4", "9", "6", "7", "2", "9", "5">>

\* numbers are held exactly up to this value; a larger u32 is held as this
\* value (a tab width is only ever divided by 1200 or 2400 and capped at 80)
HELD_MAX == 2147483647

Max(a, b) == IF a > b THEN a ELSE b

Digits == <<"0", "1", "2", "3", "4", "5", "6", "7", "8", "9">>
IsDigit(c) == \E d \in 1..10 : Digits[d] = c
DigitOf(c) == (CHOOSE d \in 1..10 : Digits[d] = c) - 1

RECURSIVE DigitsValue(_, _)
DigitsValue(s, acc) ==
    IF s = <<>> THEN acc
    ELSE IF acc > (HELD_MAX - 9) \div 10 THEN HELD_MAX
    ELSE DigitsValue(Tail(s), acc * 10 + DigitOf(Head(s)))

RECURSIVE StripZeros(_)
StripZeros(s) == IF s # <<>> /\ Head(s) = "0" THEN StripZeros(Tail(s)) ELSE s

\* a <= b for decimal digit strings without leading zeros
RECURSIVE DigitsLeq(_, _)
DigitsLeq(a, b) ==
    IF Len(a) # Len(b) THEN Len(a) < Len(b)
    ELSE IF a = <<>> THEN TRUE
    ELSE IF Head(a) # Head(b) THEN DigitOf(Head(a)) < DigitOf(Head(b))
    ELSE DigitsLeq(Tail(a), Tail(b))

\* str::parse::<uN>(): an optional "+", then one or more decimal digits, the
\* value within the type's range; anything else is an Err (NoneVal)
ParseUnsigned(value, max_digits) ==
    LET body == IF value # <<>> /\ Head(value) = "+" THEN Tail(value) ELSE value
    IN  IF body = <<>> \/ (\E i \in 1..Len(body) : ~IsDigit(body[i]))
        THEN NoneVal
        ELSE IF ~DigitsLeq(StripZeros(body), max_digits) THEN NoneVal
        ELSE SomeVal(DigitsValue(body, 0))

\* Result::unwrap_or / Option::unwrap_or
UnwrapOr(opt, default) == IF opt.some THEN opt.val ELSE default

(* ---------------------- section parser: names ------------------------- *)
EndsWith(s, suffix) ==
    /\ Len(s) >= Len(suffix)
    /\ SubSeq(s, Len(s) - Len(suffix) + 1, Len(s)) = suffix

\* s.ends_with(":tag") || s == "tag"
NameIs_AnySuffix(local_name, tag) == EndsWith(local_name, tag)
NameIs(local_name, tag) ==
    EndsWith(local_name, <<":">> \o tag) \/ local_name = tag

T_p == <<"p">>
T_t == <<"t">>
T_tbl == <<"t", "b", "l">>
T_caption == <<"c", "a", "p", "t", "i", "o", "n">>
T_tr == <<"t", "r">>
T_tc == <<"t", "c">>
T_pic == <<"p", "i", "c">>
T_tab == <<"t", "a", "b">>
T_cellSpan == <<"c", "e", "l", "l", "S", "p", "a", "n">>
T_cellAddr == <<"c", "e", "l", "l", "A", "d", "d", "r">>
T_img == <<"i", "m", "g">>

(* --------------------- section parser: tab stops ---------------------- *)
\* the attribute loop of a tab element: the last leader / width wins
RECURSIVE TabAttrs(_, _)
TabAttrs(attrs, acc) ==
    IF attrs = <<>> THEN acc
    ELSE LET a == Head(attrs)
         IN  TabAttrs(Tail(attrs),
                 IF a.key = "leader"
                 THEN [acc EXCEPT !.leader = UnwrapOr(ParseUnsigned(a.value, U8_DIGITS), 0)]
                 ELSE IF a.key = "width"
                 THEN [acc EXCEPT !.width = UnwrapOr(ParseUnsigned(a.value, U32_DIGITS), 0)]
                 ELSE acc)

Repeat(c, n) == [i \in 1..n |-> c]

\* (width / unit).min(hi).max(lo)
LeaderCount_NoFloor(width, unit, hi, lo) == Min(width \div unit, hi)
LeaderCount(width, unit, hi, lo) == Max(Min(width \div unit, hi), lo)

tab_text(leader, width) ==
    IF leader = 3 THEN Repeat(".", LeaderCount(width, DOT_UNIT, DOT_MAX, DOT_MIN))
    ELSE IF leader = 2 THEN Repeat("-", LeaderCount(width, LINE_UNIT, LINE_MAX, LINE_MIN))
    ELSE IF leader = 1 THEN Repeat("_", LeaderCount(width, LINE_UNIT, LINE_MAX, LINE_MIN))
    ELSE <<"\t">>

TabText(attrs) ==
    LET tab == TabAttrs(attrs, [leader |-> 0, width |-> 0])
    IN  tab_text(tab.leader, tab.width)

(* ------------------- section parser: parser state --------------------- *)
\* the text destination: caption, else cell, else the top-level buffer
PushText(st, txt) ==
    IF st.in_table /\ st.in_caption
    THEN [st EXCEPT !.table_caption = @ \o txt]
    ELSE IF st.in_table /\ st.in_cell
    THEN [st EXCEPT !.current_cell.text = @ \o txt]
    ELSE IF ~st.in_table
    THEN [st EXCEPT !.current_text = @ \o txt]
    ELSE st

RECURSIVE SpanAttrs(_, _)
SpanAttrs(attrs, cell) ==
    IF attrs = <<>> THEN cell
    ELSE LET a == Head(attrs)
         IN  SpanAttrs(Tail(attrs),
                 IF a.key = "colSpan"
                 THEN [cell EXCEPT !.col_span = UnwrapOr(ParseUnsigned(a.value, U16_DIGITS), 1)]
                 ELSE IF a.key = "rowSpan"
                 THEN [cell EXCEPT !.row_span = UnwrapOr(ParseUnsigned(a.value, U16_DIGITS), 1)]
                 ELSE cell)

RECURSIVE AddrAttrs(_, _)
AddrAttrs(attrs, cell) ==
    IF attrs = <<>> THEN cell
    ELSE LET a == Head(attrs)
         IN  AddrAttrs(Tail(attrs),
                 IF a.key = "colAddr"
                 THEN [cell EXCEPT !.col_addr =
                           SomeVal(UnwrapOr(ParseUnsigned(a.value, U16_DIGITS), 0))]
                 ELSE IF a.key = "rowAddr"
                 THEN [cell EXCEPT !.row_addr =
                           SomeVal(UnwrapOr(ParseUnsigned(a.value, U16_DIGITS), 0))]
                 ELSE cell)

RECURSIVE ImgAttrs(_, _)
ImgAttrs(attrs, ref) ==
    IF attrs = <<>> THEN ref
    ELSE LET a == Head(attrs)
         IN  ImgAttrs(Tail(attrs),
                 IF a.key = "binaryItemIDRef" THEN SomeVal(a.value) ELSE ref)

\* Ok(Event::Empty(e))
OnEmpty(st, e) ==
    IF NameIs(e.name, T_tab) THEN PushText(st, TabText(e.attrs))
    ELSE IF NameIs(e.name, T_cellSpan)
    THEN [st EXCEPT !.current_cell = SpanAttrs(e.attrs, @)]
    ELSE IF NameIs(e.name, T_cellAddr)
    THEN [st EXCEPT !.current_cell = AddrAttrs(e.attrs, @)]
    ELSE IF NameIs(e.name, T_img)
    THEN [st EXCEPT !.current_image_ref = ImgAttrs(e.attrs, @)]
    ELSE st

\* Ok(Event::Start(e))
OnStart(st, e) ==
    IF NameIs(e.name, T_p)
    THEN [st EXCEPT !.para_depth = @ + 1,
                    !.current_text =
                        IF ~st.in_table /\ st.para_depth + 1 = 1 THEN <<>> ELSE @]
    ELSE IF NameIs(e.name, T_t) THEN [st EXCEPT !.in_text = TRUE]
    ELSE IF NameIs(e.name, T_tbl)
    THEN [st EXCEPT !.in_table = TRUE, !.table_rows = <<>>, !.table_caption = <<>>]
    ELSE IF NameIs(e.name, T_caption) THEN [st EXCEPT !.in_caption = TRUE]
    ELSE IF NameIs(e.name, T_tr) THEN [st EXCEPT !.current_row = <<>>]
    ELSE IF NameIs(e.name, T_tc)
    THEN [st EXCEPT !.in_cell = TRUE, !.current_cell = HwpxCellDefault]
    ELSE IF NameIs(e.name, T_pic)
    THEN [st EXCEPT !.in_picture = TRUE, !.current_image_ref = NoneVal]
    ELSE st

\* Ok(Event::Text(e))
OnText(st, e) == IF st.in_text THEN PushText(st, e.text) ELSE st

(* ------------------- section parser: closing events ------------------- *)
Whitespace == {" ", "\n", "\t"}

RECURSIVE TrimStart(_)
TrimStart(s) ==
    IF s # <<>> /\ Head(s) \in Whitespace THEN TrimStart(Tail(s)) ELSE s

RECURSIVE TrimEnd(_)
TrimEnd(s) ==
    IF s # <<>> /\ s[Len(s)] \in Whitespace
    THEN TrimEnd(SubSeq(s, 1, Len(s) - 1)) ELSE s

\* str::trim()
Trim(s) == TrimEnd(TrimStart(s))

\* str::trim_end_matches('\n')
RECURSIVE TrimEndNewlines(_)
TrimEndNewlines(s) ==
    IF s # <<>> /\ s[Len(s)] = "\n"
    THEN TrimEndNewlines(SubSeq(s, 1, Len(s) - 1)) ELSE s

\* create_paragraph
TextParagraph(t) == OnePara(t)

\* create_image_paragraph
create_image_paragraph(binary_item_ref) ==
    << [kind |-> "HwpxImage", binary_item_ref |-> binary_item_ref] >>

\* col_addr.unwrap_or(0) + col_span of every cell, rows flattened
RECURSIVE ColExtents(_)
ColExtents(cells) ==
    IF cells = <<>> THEN {}
    ELSE {UnwrapOr(Head(cells).col_addr, 0) + Head(cells).col_span}
             \cup ColExtents(Tail(cells))

SetMax(S) == CHOOSE m \in S : \A x \in S : x <= m

\* col_count: the maximum extent, truncated to UINT16
ColCount(rows) ==
    LET ext == ColExtents(Concat(rows))
    IN  IF ext = {} THEN 0 ELSE SetMax(ext) % U16_MOD

\* the cells of one row: col_address is the explicit address or the running
\* calc_col_address; the u16 addition after each cell traps when the build
\* checks overflow and wraps otherwise
RECURSIVE RowCells(_, _, _, _)
RowCells(row, row_idx, calc_col_address, checks) ==
    IF row = <<>> THEN [cells |-> <<>>, panic |-> FALSE]
    ELSE LET cell_data == Head(row)
             col_address == UnwrapOr(cell_data.col_addr, calc_col_address)
             row_address == UnwrapOr(cell_data.row_addr, row_idx % U16_MOD)
             cell == Cell(row_address, col_address,
                          cell_data.row_span, cell_data.col_span,
                          <<TextParagraph(cell_data.text)>>)
             sum == col_address + cell_data.col_span
         IN  IF sum >= U16_MOD /\ checks
             THEN [cells |-> <<cell>>, panic |-> TRUE]
             ELSE LET rest == RowCells(Tail(row), row_idx, sum % U16_MOD, checks)
                  IN  [cells |-> <<cell>> \o rest.cells, panic |-> rest.panic]

RECURSIVE TableCells(_, _, _)
TableCells(rows, row_idx, checks) ==
    IF rows = <<>> THEN [cells |-> <<>>, panic |-> FALSE]
    ELSE LET first == RowCells(Head(rows), row_idx, 0, checks)
         IN  IF first.panic THEN first
             ELSE LET rest == TableCells(Tail(rows), row_idx + 1, checks)
                  IN  [cells |-> first.cells \o rest.cells, panic |-> rest.panic]

create_table_paragraph_with_spans(rows, checks) ==
    LET built == TableCells(rows, 0, checks)
    IN  [panic |-> built.panic,
         para |-> << [kind |-> "Table",
                      table |-> Table(Len(rows) % U16_MOD, ColCount(rows), built.cells)] >>]

\* End of a paragraph element
EndP_NoSeparator(st) ==
    LET flush == st.para_depth = 1 /\ ~st.in_table /\ st.current_text # <<>>
        s1 == IF flush
              THEN [st EXCEPT !.paragraphs = Append(@, TextParagraph(st.current_text)),
                              !.current_text = <<>>]
              ELSE st
        s2 == IF s1.in_cell /\ s1.current_cell.text # <<>>
              THEN [s1 EXCEPT !.current_cell.text = Append(@, "\n")]
              ELSE s1
    IN  [s2 EXCEPT !.para_depth = SatSub(@, 1)]

EndP(st) ==
    LET flush == st.para_depth = 1 /\ ~st.in_table /\ st.current_text # <<>>
        s1 == IF flush
              THEN [st EXCEPT !.paragraphs = Append(@, TextParagraph(st.current_text)),
                              !.current_text = <<>>]
              ELSE st
        s2 == IF s1.in_cell /\ s1.current_cell.text # <<>>
              THEN [s1 EXCEPT !.current_cell.text = Append(@, "\n")]
              ELSE s1
        s3 == IF s2.para_depth > 1 /\ ~s2.in_table /\ s2.current_text # <<>>
              THEN [s2 EXCEPT !.current_text = Append(@, "\n")]
              ELSE s2
    IN  [s3 EXCEPT !.para_depth = SatSub(@, 1)]

\* End of a table element: the caption paragraph, then the table paragraph
EndTbl_Untrimmed(st, checks) ==
    LET s1 == IF Trim(st.table_caption) # <<>>
              THEN [st EXCEPT !.paragraphs = Append(@, TextParagraph(st.table_caption))]
              ELSE st
        built == create_table_paragraph_with_spans(st.table_rows, checks)
    IN  IF st.table_rows # <<>> /\ built.panic
        THEN [s1 EXCEPT !.panicked = TRUE]
        ELSE [s1 EXCEPT !.paragraphs =
                            IF st.table_rows # <<>> THEN Append(@, built.para) ELSE @,
                        !.in_table = FALSE,
                        !.table_caption = <<>>]

EndTbl(st, checks) ==
    LET caption_trimmed == Trim(st.table_caption)
        s1 == IF caption_trimmed # <<>>
              THEN [st EXCEPT !.paragraphs = Append(@, TextParagraph(caption_trimmed))]
              ELSE st
        built == create_table_paragraph_with_spans(st.table_rows, checks)
    IN  IF st.table_rows # <<>> /\ built.panic
        THEN [s1 EXCEPT !.panicked = TRUE]
        ELSE [s1 EXCEPT !.paragraphs =
                            IF st.table_rows # <<>> THEN Append(@, built.para) ELSE @,
                        !.in_table = FALSE,
                        !.table_caption = <<>>]

\* Ok(Event::End(e))
OnEnd(st, e, checks) ==
    IF NameIs(e.name, T_p) THEN EndP(st)
    ELSE IF NameIs(e.name, T_t) THEN [st EXCEPT !.in_text = FALSE]
    ELSE IF NameIs(e.name, T_caption) THEN [st EXCEPT !.in_caption = FALSE]
    ELSE IF NameIs(e.name, T_tbl) THEN EndTbl(st, checks)
    ELSE IF NameIs(e.name, T_tr)
    THEN [st EXCEPT !.table_rows =
                        IF st.current_row # <<>> THEN Append(@, st.current_row) ELSE @]
    ELSE IF NameIs(e.name, T_tc)
    THEN LET closed == [st.current_cell EXCEPT !.text = TrimEndNewlines(@)]
         IN  [st EXCEPT !.current_cell = closed,
                        !.current_row = Append(@, closed),
                        !.in_cell = FALSE]
    ELSE IF NameIs(e.name, T_pic)
    THEN [st EXCEPT !.paragraphs =
                        IF st.current_image_ref.some
                        THEN Append(@, create_image_paragraph(st.current_image_ref.val))
                        ELSE @,
                    !.in_picture = FALSE,
                    !.current_image_ref = NoneVal]
    ELSE st

\* one arm of the match on reader.read_event(), Eof and Err apart
HandleEvent(st, e, checks) ==
    IF e.kind = "Empty" THEN OnEmpty(st, e)
    ELSE IF e.kind = "Start" THEN OnStart(st, e)
    ELSE IF e.kind = "Text" THEN OnText(st, e)
    ELSE IF e.kind = "End" THEN OnEnd(st, e, checks)
    ELSE st

\* the locals of parse_section_xml before the loop
ParserStart ==
    [paragraphs |-> <<>>, current_text |-> <<>>, in_text |-> FALSE,
     in_table |-> FALSE, in_cell |-> FALSE, in_caption |-> FALSE,
     in_picture |-> FALSE, current_image_ref |-> NoneVal, table_rows |-> <<>>,
     current_row |-> <<>>, current_cell |-> HwpxCellDefault,
     table_caption |-> <<>>, para_depth |-> 0, panicked |-> FALSE]

\* the loop of parse_section_xml over a whole event list
RECURSIVE RunEvents(_, _, _)
RunEvents(st, evs, checks) ==
    IF evs = <<>> THEN [result |-> "running", paragraphs |-> st.paragraphs]
    ELSE IF Head(evs).kind = "Eof" THEN [result |-> "Ok", paragraphs |-> st.paragraphs]
    ELSE IF Head(evs).kind = "Err" THEN [result |-> "Err", paragraphs |-> <<>>]
    ELSE LET n == HandleEvent(st, Head(evs), checks)
         IN  IF n.panicked THEN [result |-> "panic", paragraphs |-> <<>>]
             ELSE RunEvents(n, Tail(evs), checks)

parse_section_xml(content, checks) == RunEvents(ParserStart, content, checks)

(* -------------------- section parser: event streams ------------------- *)
StartEv(name) == [kind |-> "Start", name |-> name, attrs |-> <<>>, text |-> <<>>]
EndEv(name) == [kind |-> "End", name |-> name, attrs |-> <<>>, text |-> <<>>]
EmptyEv(name, attrs) == [kind |-> "Empty", name |-> name, attrs |-> attrs, text |-> <<>>]
TextEv(t) == [kind |-> "Text", name |-> <<>>, attrs |-> <<>>, text |-> t]
DeclEv == [kind |-> "Decl", name |-> <<>>, attrs |-> <<>>, text |-> <<>>]
EofEv == [kind |-> "Eof", name |-> <<>>, attrs |-> <<>>, text |-> <<>>]
ErrEv == [kind |-> "Err", name |-> <<>>, attrs |-> <<>>, text |-> <<>>]
Attr(k, v) == [key |-> k, value |-> v]

\* qualified names as they appear in section XML
Hp(tag) == <<"h", "p", ":">> \o tag
Hc(tag) == <<"h", "c", ":">> \o tag

\* element names the parser has no arm for
UnknownNames ==
    { Hp(<<"r", "u", "n">>), Hp(<<"r", "e", "c", "t">>), <<"c", "t", "r", "l">> }

\* <hp:t>text</hp:t>
TextRun(t) == <<StartEv(Hp(T_t)), TextEv(t), EndEv(Hp(T_t))>>
\* <hp:p> ... </hp:p>
ParaEl(inner) == <<StartEv(Hp(T_p))>> \o inner \o <<EndEv(Hp(T_p))>>
TblEl(inner) == <<StartEv(Hp(T_tbl))>> \o inner \o <<EndEv(Hp(T_tbl))>>
TrEl(inner) == <<StartEv(Hp(T_tr))>> \o inner \o <<EndEv(Hp(T_tr))>>
TcEl(inner) == <<StartEv(Hp(T_tc))>> \o inner \o <<EndEv(Hp(T_tc))>>
CaptionEl(inner) == <<StartEv(Hp(T_caption))>> \o inner \o <<EndEv(Hp(T_caption))>>
PicEl(ref) ==
    <<StartEv(Hp(T_pic)), EmptyEv(Hc(T_img), <<Attr("binaryItemIDRef", ref)>>),
      EndEv(Hp(T_pic))>>

\* attribute values of a tab element: absent, or a string
TabLeaders ==
    {NoneVal} \cup {SomeVal(v) : v \in { <<"0">>, <<"1">>, <<"2">>, <<"3">>, <<"4">>,
                                         <<"+", "3">>, <<"x">>, <<"2", "5", "9">>, <<>> }}
TabWidths ==
    {NoneVal} \cup
    {SomeVal(v) : v \in { <<"0">>, <<"1", "1", "9", "9">>, <<"1", "2", "0", "0">>,
                          <<"3", "6", "0", "0">>, <<"4", "7", "9", "9">>,
                          <<"4", "8", "0", "0">>, <<"7", "2", "0", "0">>,
                          <<"9", "6", "0", "0", "0">>, <<"9", "7", "2", "0", "0">>,
                          <<"x">>, <<"4", "2", "9", "4", "9", "6", "7", "2", "9", "5">>,
                          <<"4", "2", "9", "4", "9", "6", "7", "2", "9", "6">> }}

TabEl(leader, width) ==
    EmptyEv(Hp(T_tab),
            (IF leader.some THEN <<Attr("leader", leader.val)>> ELSE <<>>)
                \o (IF width.some THEN <<Attr("width", width.val)>> ELSE <<>>))

\* a tab element in each text context: top-level paragraph, table cell,
\* table caption, and directly inside a table
TabContexts == {"top", "cell", "caption", "table"}
TabStream(ctx, tab) ==
    LET run == <<StartEv(Hp(T_t)), TextEv(<<"A">>), tab, EndEv(Hp(T_t))>>
    IN  IF ctx = "top" THEN ParaEl(run)
        ELSE IF ctx = "cell" THEN ParaEl(TblEl(TrEl(TcEl(ParaEl(run)))))
        ELSE IF ctx = "caption" THEN ParaEl(TblEl(CaptionEl(ParaEl(run))))
        ELSE ParaEl(TblEl(<<tab>>))

\* the sub-elements of a table cell: nothing, a merge, an explicit address,
\* an address or span that is not a number, and the numeric extremes
CellKinds ==
    << <<>>,
       <<EmptyEv(Hp(T_cellSpan), <<Attr("colSpan", <<"2">>), Attr("rowSpan", <<"1">>)>>)>>,
       <<EmptyEv(Hp(T_cellAddr), <<Attr("colAddr", <<"1">>), Attr("rowAddr", <<"0">>)>>)>>,
       <<EmptyEv(Hp(T_cellAddr), <<Attr("colAddr", <<"x">>), Attr("rowAddr", <<"0">>)>>)>>,
       <<EmptyEv(Hp(T_cellSpan), <<Attr("colSpan", <<"x">>), Attr("rowSpan", <<>>)>>)>>,
       <<EmptyEv(Hp(T_cellAddr), <<Attr("colAddr", <<"6", "5", "5", "3", "5">>),
                                   Attr("rowAddr", <<"0">>)>>),
         EmptyEv(Hp(T_cellSpan), <<Attr("colSpan", <<"1">>), Attr("rowSpan", <<"1">>)>>)>>,
       <<EmptyEv(Hp(T_cellSpan), <<Attr("colSpan", <<"6", "5", "5", "3", "5">>),
                                   Attr("rowSpan", <<"6", "5", "5", "3", "6">>)>>)>> >>

\* <hp:tc> with its paragraph and then its cellAddr / cellSpan sub-elements
CellEl(letter, kind) == TcEl(ParaEl(TextRun(<<letter>>)) \o CellKinds[kind])

RECURSIVE RowEl(_, _, _)
RowEl(kinds, first, n) ==
    IF n = 0 THEN <<>>
    ELSE RowEl(kinds, first, n - 1) \o CellEl(Letters[first + n - 1], kinds[n])

\* a table whose first row carries the chosen cell kinds; further rows are
\* plain cells
RECURSIVE PlainRows(_, _, _)
PlainRows(r, n, first) ==
    IF r = 0 THEN <<>>
    ELSE TrEl(RowEl([i \in 1..n |-> 1], first, n)) \o PlainRows(r - 1, n, first + n)

TableStream(kinds, r) ==
    LET n == Len(kinds)
    IN  ParaEl(TblEl(TrEl(RowEl(kinds, 1, n)) \o PlainRows(r - 1, n, n + 1)))

\* a table whose second cell holds text, a captioned table of its own, and
\* more text
NestedTableDoc ==
    ParaEl(TblEl(TrEl(
        TcEl(ParaEl(TextRun(<<"A">>)))
            \o TcEl(ParaEl(TextRun(<<"B">>)
                               \o TblEl(CaptionEl(ParaEl(TextRun(<<"C">>)))
                                            \o TrEl(TcEl(ParaEl(TextRun(<<"D">>))))))
                        \o ParaEl(TextRun(<<"E">>))))))

\* a drawing container holding a reference and then another container, and
\* an image reference outside any container
NestedPicDoc ==
    ParaEl(TextRun(<<"A">>)
               \o <<StartEv(Hp(T_pic)), EmptyEv(Hc(T_img), <<Attr("binaryItemIDRef", <<"I">>)>>)>>
               \o PicEl(<<"J">>)
               \o <<EndEv(Hp(T_pic))>>)
        \o <<EmptyEv(Hc(T_img), <<Attr("binaryItemIDRef", <<"K">>)>>)>>
        \o ParaEl(TextRun(<<"B">>))

\* a captioned table without rows, then a table with text outside its cells,
\* a row without cells, a cell whose paragraphs are partly empty, and a cell
\* whose spans are given as 0
SparseTableDoc ==
    ParaEl(TblEl(CaptionEl(ParaEl(TextRun(<<"C">>)))))
        \o ParaEl(TblEl(ParaEl(TextRun(<<"X">>))
                            \o TrEl(<<>>)
                            \o TrEl(TcEl(ParaEl(<<>>) \o ParaEl(TextRun(<<"B">>))
                                             \o ParaEl(<<>>) \o ParaEl(TextRun(<<"D">>))
                                             \o ParaEl(<<>>))
                                        \o TcEl(ParaEl(TextRun(<<"F">>))
                                                    \o <<EmptyEv(Hp(T_cellSpan),
                                                                 <<Attr("colSpan", <<"0">>),
                                                                   Attr("rowSpan", <<"0">>)>>)>>))
                            \o CaptionEl(ParaEl(<<>>))))

\* paragraphs without text, at the top level and nested
EmptyParaDoc ==
    ParaEl(<<>>) \o ParaEl(TextRun(<<"A">>) \o ParaEl(<<>>))
        \o ParaEl(ParaEl(TextRun(<<"B">>))) \o ParaEl(ParaEl(<<>>))

\* whole documents exercising paragraph nesting, captions, tables and images
Docs ==
    << <<DeclEv>> \o ParaEl(TextRun(<<"A">>)) \o ParaEl(TextRun(<<"B">>)),
       ParaEl(TextRun(<<"A">>) \o ParaEl(TextRun(<<"B">>))),
       ParaEl(TextRun(<<"A">>) \o TblEl(TrEl(TcEl(ParaEl(TextRun(<<"B">>)))))),
       ParaEl(TblEl(CaptionEl(ParaEl(TextRun(<<" ", "C", " ">>)))
                        \o TrEl(TcEl(ParaEl(TextRun(<<"B">>)) \o ParaEl(TextRun(<<"D">>)))))),
       ParaEl(TblEl(TrEl(TcEl(ParaEl(TextRun(<<"B">>) \o PicEl(<<"I">>)))))),
       ParaEl(TextRun(<<"A">>) \o PicEl(<<"I">>)) \o ParaEl(TextRun(<<"B">>)),
       NestedTableDoc,
       NestedPicDoc,
       SparseTableDoc,
       EmptyParaDoc >>

\* a stream cut short after its first k events
Truncated(doc, k, last) == SubSeq(doc, 1, k) \o <<last>>

\* a stream with one more event placed after its first k events
Inserted(doc, k, e) ==
    SubSeq(doc, 1, k) \o <<e>> \o SubSeq(doc, k + 1, Len(doc)) \o <<EofEv>>

InitTabs ==
    \E ctx \in TabContexts, leader \in TabLeaders, width \in TabWidths :
        events = TabStream(ctx, TabEl(leader, width)) \o <<EofEv>>

InitTable ==
    \E n \in 1..MaxTblCells, r \in 1..MaxTblRows :
        \E kinds \in [1..n -> 1..Len(CellKinds)] :
            events = TableStream(kinds, r) \o <<EofEv>>

InitDocs ==
    \E d \in 1..Len(Docs) :
        \/ \E k \in 0..Len(Docs[d]), last \in {EofEv, ErrEv} :
               events = Truncated(Docs[d], k, last)
        \/ \E k \in 0..Len(Docs[d]), name \in UnknownNames :
               \E e \in {StartEv(name), EndEv(name), EmptyEv(name, <<>>)} :
                   events = Inserted(Docs[d], k, e)

(* ---------------------- section parser: actions ----------------------- *)
ParserState ==
    [paragraphs |-> paragraphs, current_text |-> current_text, in_text |-> in_text,
     in_table |-> in_table, in_cell |-> in_cell, in_caption |-> in_caption,
     in_picture |-> in_picture, current_image_ref |-> current_image_ref,
     table_rows |-> table_rows, current_row |-> current_row,
     current_cell |-> current_cell, table_caption |-> table_caption,
     para_depth |-> para_depth, panicked |-> FALSE]

Becomes(st) ==
    /\ paragraphs' = st.paragraphs
    /\ current_text' = st.current_text
    /\ in_text' = st.in_text
    /\ in_table' = st.in_table
    /\ in_cell' = st.in_cell
    /\ in_caption' = st.in_caption
    /\ in_picture' = st.in_picture
    /\ current_image_ref' = st.current_image_ref
    /\ table_rows' = st.table_rows
    /\ current_row' = st.current_row
    /\ current_cell' = st.current_cell
    /\ table_caption' = st.table_caption
    /\ para_depth' = st.para_depth

parserLocals == <<paragraphs, current_text, in_text, in_table, in_cell, in_caption,
                  in_picture, current_image_ref, table_rows, current_row,
                  current_cell, table_caption, para_depth>>
notParser == <<segVars, tblVars, use_html, detVars, chartVars, docVars, imgVars>>

InitParse ==
    /\ \/ InitTabs
       \/ InitTable
       \/ InitDocs
    /\ overflow_checks \in BOOLEAN
    /\ reader_pos = 0
    /\ paragraphs = <<>>
    /\ current_text = <<>>
    /\ in_text = FALSE
    /\ in_table = FALSE
    /\ in_cell = FALSE
    /\ in_caption = FALSE
    /\ in_picture = FALSE
    /\ current_image_ref = NoneVal
    /\ table_rows = <<>>
    /\ current_row = <<>>
    /\ current_cell = HwpxCellDefault
    /\ table_caption = <<>>
    /\ para_depth = 0
    /\ parse_result = "running"
    /\ section = NoneVal
    /\ text = <<>>
    /\ control_char_positions = <<>>
    /\ sorted_positions = <<>>
    /\ last_char_pos = 0
    /\ para_text_result = <<>>
    /\ seg_pc = "idle"
    /\ use_html = FALSE
    /\ table = NoTable
    /\ output = NoOutput
    /\ tbl_pc = "idle"
    /\ ImgIdle
    /\ DetIdle
    /\ data = <<>>
    /\ ChartIdle
    /\ DocIdle

\* the event read_event() delivers next
NextEvent == events[reader_pos + 1]
Reading(kind) == parse_result = "running" /\ NextEvent.kind = kind

ReadEmpty ==
    /\ Reading("Empty")
    /\ Becomes(OnEmpty(ParserState, NextEvent))
    /\ reader_pos' = reader_pos + 1
    /\ UNCHANGED <<events, overflow_checks, parse_result, section, notParser>>

ReadStart ==
    /\ Reading("Start")
    /\ Becomes(OnStart(ParserState, NextEvent))
    /\ reader_pos' = reader_pos + 1
    /\ UNCHANGED <<events, overflow_checks, parse_result, section, notParser>>

ReadText ==
    /\ Reading("Text")
    /\ Becomes(OnText(ParserState, NextEvent))
    /\ reader_pos' = reader_pos + 1
    /\ UNCHANGED <<events, overflow_checks, parse_result, section, notParser>>

\* a closing event; closing a table may trap on the column address addition
ReadEnd ==
    /\ Reading("End")
    /\ LET st == OnEnd(ParserState, NextEvent, overflow_checks)
       IN  /\ Becomes(st)
           /\ parse_result' = IF st.panicked THEN "panic" ELSE "running"
    /\ reader_pos' = reader_pos + 1
    /\ UNCHANGED <<events, overflow_checks, section, notParser>>

\* any other event (declaration, comment, ...) is skipped
ReadOther ==
    /\ Reading("Decl")
    /\ reader_pos' = reader_pos + 1
    /\ UNCHANGED <<events, overflow_checks, parse_result, section, parserLocals,
                   notParser>>

\* Ok(Event::Eof): the loop ends and the Section is returned
ReadEof ==
    /\ Reading("Eof")
    /\ parse_result' = "Ok"
    /\ section' = SomeVal(paragraphs)
    /\ reader_pos' = reader_pos + 1
    /\ UNCHANGED <<events, overflow_checks, parserLocals, notParser>>

\* Err(e): XmlParseError is returned, the paragraphs built so far are dropped
ReadErr ==
    /\ Reading("Err")
    /\ parse_result' = "Err"
    /\ reader_pos' = reader_pos + 1
    /\ UNCHANGED <<events, overflow_checks, section, parserLocals, notParser>>

NextParse ==
    \/ ReadEmpty
    \/ ReadStart
    \/ ReadText
    \/ ReadEnd
    \/ ReadOther
    \/ ReadEof
    \/ ReadErr

SpecParse == InitParse /\ [][NextParse]_vars

(* ---------------------- section parser: claims ------------------------ *)
ParseDone == parse_result \in {"Ok", "Err", "panic"}
ReadingTag(kind, tag) == Reading(kind) /\ NameIs(NextEvent.name, tag)

\* the value of the last attribute with this key, if any
RECURSIVE LastAttr(_, _)
LastAttr(attrs, key) ==
    IF attrs = <<>> THEN NoneVal
    ELSE IF attrs[Len(attrs)].key = key THEN SomeVal(attrs[Len(attrs)].value)
    ELSE LastAttr(SubSeq(attrs, 1, Len(attrs) - 1), key)

\* the number an attribute denotes, or None when it is missing or not a number
AttrNumber(attrs, key, max_digits) ==
    IF LastAttr(attrs, key).some
    THEN ParseUnsigned(LastAttr(attrs, key).val, max_digits)
    ELSE NoneVal

Clamp(x, lo, hi) == IF x < lo THEN lo ELSE IF x > hi THEN hi ELSE x

\* the buffer a piece of text goes to in the current context
HasDestination == (in_table /\ (in_caption \/ in_cell)) \/ ~in_table
Destination ==
    IF in_table /\ in_caption THEN table_caption
    ELSE IF in_table /\ in_cell THEN current_cell.text
    ELSE current_text

ExpectedTab(attrs) ==
    LET leader == UnwrapOr(AttrNumber(attrs, "leader", U8_DIGITS), 0)
        width == UnwrapOr(AttrNumber(attrs, "width", U32_DIGITS), 0)
    IN  CASE leader = 3 -> Repeat(".", Clamp(width \div 1200, 3, 80))
          [] leader = 2 -> Repeat("-", Clamp(width \div 2400, 2, 40))
          [] leader = 1 -> Repeat("_", Clamp(width \div 2400, 2, 40))
          [] OTHER -> <<"\t">>

\* C11: reading a tab element appends to the active text buffer '.' repeated
\* clamp(width div 1200, 3, 80) times for a dot leader, '-' (dash) or '_'
\* (solid) repeated clamp(width div 2400, 2, 40) times, and exactly one tab
\* character for no, an unknown or an unparseable leader; a missing or
\* unparseable width counts as 0, so a dot leader still gives 3 dots.
C11_TabExpansion ==
    [][ (ReadingTag("Empty", T_tab) /\ HasDestination)
            => Destination' = Destination \o ExpectedTab(NextEvent.attrs) ]_vars

LastEvent == events[reader_pos]

\* a dot leader whose width is not a number has put three dots after "A"
C11_Witness ==
    /\ reader_pos > 0 /\ LastEvent.kind = "Empty" /\ NameIs(LastEvent.name, T_tab)
    /\ LastAttr(LastEvent.attrs, "leader") = SomeVal(<<"3">>)
    /\ LastAttr(LastEvent.attrs, "width") = SomeVal(<<"x">>)
    /\ current_text = <<"A", ".", ".", ".">>

\* the Table records among the paragraphs pushed so far
EmittedTables ==
    {paragraphs[i][1].table : i \in {j \in 1..Len(paragraphs) : paragraphs[j][1].kind = "Table"}}

\* resolved column address + col_span of every emitted cell
ResolvedExtents(t) ==
    {t.cells[i].col_address + t.cells[i].col_span : i \in 1..Len(t.cells)}

FitsU16(t) == \A x \in ResolvedExtents(t) : x < U16_MOD

\* C12: an emitted table's declared column count equals the maximum over its
\* cells of (resolved column address + col_span), the resolved address being
\* the explicit one or else the one inferred within the row (stated here for
\* tables whose extents fit 16 bits).
C12_ColumnCount ==
    \A t \in EmittedTables :
        FitsU16(t) => t.col_count = SetMax(ResolvedExtents(t))

\* cellSpan / cellAddr / tab events whose numeric attribute is not a number
BadNumber(attrs, key, max_digits) ==
    LastAttr(attrs, key).some /\ ~AttrNumber(attrs, key, max_digits).some

\* C13: an unparseable colSpan / rowSpan gives span 1; an unparseable colAddr /
\* rowAddr leaves that coordinate of the cell absent; a tab with an unparseable
\* width expands as for width 0; and the parser goes on to the next event.
C13_AttributeDefaults ==
    [][ /\ (ReadingTag("Empty", T_cellSpan) /\ BadNumber(NextEvent.attrs, "colSpan", U16_DIGITS))
            => current_cell'.col_span = 1 /\ parse_result' = "running"
        /\ (ReadingTag("Empty", T_cellSpan) /\ BadNumber(NextEvent.attrs, "rowSpan", U16_DIGITS))
            => current_cell'.row_span = 1 /\ parse_result' = "running"
        /\ (ReadingTag("Empty", T_cellAddr) /\ BadNumber(NextEvent.attrs, "colAddr", U16_DIGITS)
                /\ ~current_cell.col_addr.some)
            => ~current_cell'.col_addr.some /\ parse_result' = "running"
        /\ (ReadingTag("Empty", T_cellAddr) /\ BadNumber(NextEvent.attrs, "rowAddr", U16_DIGITS)
                /\ ~current_cell.row_addr.some)
            => ~current_cell'.row_addr.some /\ parse_result' = "running"
        /\ (ReadingTag("Empty", T_tab) /\ BadNumber(NextEvent.attrs, "width", U32_DIGITS)
                /\ HasDestination)
            => /\ Destination' = Destination
                      \o tab_text(UnwrapOr(AttrNumber(NextEvent.attrs, "leader", U8_DIGITS), 0), 0)
               /\ parse_result' = "running" ]_vars

\* C14: the section parser never panics, whatever the attribute values.
C14_NeverAborts == parse_result # "panic"

\* the elements still open after a list of events, innermost last
RECURSIVE OpenStack(_, _)
OpenStack(evs, stack) ==
    IF evs = <<>> THEN stack
    ELSE LET e == Head(evs)
         IN  OpenStack(Tail(evs),
                 IF e.kind = "Start" THEN Append(stack, e.name)
                 ELSE IF e.kind = "End" /\ stack # <<>> /\ stack[Len(stack)] = e.name
                 THEN SubSeq(stack, 1, Len(stack) - 1)
                 ELSE stack)

\* closing events for a stack of open elements, innermost first
RECURSIVE Closers(_)
Closers(stack) ==
    IF stack = <<>> THEN <<>>
    ELSE <<EndEv(stack[Len(stack)])>> \o Closers(SubSeq(stack, 1, Len(stack) - 1))

\* the stream with the missing closing events put before its end
ImplicitlyClosed(evs) ==
    LET read == SubSeq(evs, 1, Len(evs) - 1)
    IN  read \o Closers(OpenStack(read, <<>>)) \o <<evs[Len(evs)]>>

HasOpenElements == OpenStack(SubSeq(events, 1, Len(events) - 1), <<>>) # <<>>

\* C15: when the stream ends while elements are open, parsing succeeds and the
\* Section is the one the same stream gives with the closing events received.
C15_ImplicitClose ==
    (parse_result = "Ok" /\ HasOpenElements)
        => section.val = parse_section_xml(ImplicitlyClosed(events), overflow_checks).paragraphs

\* where a piece of content begins in the event stream: a text paragraph at
\* the text event carrying its first character, a table at its opening
\* event, an image at the opening event of its picture element
FirstEvent(P(_)) ==
    CHOOSE k \in 1..Len(events) : P(k) /\ \A m \in 1..(k - 1) : ~P(m)

TextBegins(c) ==
    FirstEvent(LAMBDA k : /\ events[k].kind = "Text"
                          /\ Trim(events[k].text) # <<>>
                          /\ Trim(events[k].text)[1] = c)
TagBegins(kind, tag) ==
    FirstEvent(LAMBDA k : events[k].kind = kind /\ NameIs(events[k].name, tag))

BeginOf(para) ==
    IF para[1].kind = "ParaText" THEN TextBegins(para[1].text[1])
    ELSE IF para[1].kind = "Table" THEN TagBegins("Start", T_tbl)
    ELSE TagBegins("Start", T_pic)

\* a caption paragraph and the table it belongs to are not compared
IsCaptionOf(a, b) ==
    /\ a[1].kind = "ParaText" /\ b[1].kind = "Table"
    /\ BeginOf(a) > TagBegins("Start", T_tbl)
    /\ BeginOf(a) < TagBegins("End", T_tbl)

\* C16: the emitted paragraphs are in the order in which their content begins
\* in the event stream (text, captions, tables and images alike).
C16_DocumentOrder ==
    parse_result = "Ok" =>
        \A i, j \in 1..Len(section.val) :
            LET a == section.val[i]
                b == section.val[j]
            IN  (i < j /\ ~IsCaptionOf(a, b) /\ ~IsCaptionOf(b, a))
                    => BeginOf(a) < BeginOf(b)

\* the part of a qualified name after its last colon
RECURSIVE LocalPart(_)
LocalPart(name) ==
    IF \E i \in 1..Len(name) : name[i] = ":"
    THEN LocalPart(Tail(name)) ELSE name

Vocabulary ==
    {T_p, T_t, T_tbl, T_caption, T_tr, T_tc, T_pic, T_tab, T_cellSpan, T_cellAddr, T_img}

UnknownEvent(e) ==
    e.kind \in {"Start", "End", "Empty"} /\ LocalPart(e.name) \notin Vocabulary

RECURSIVE WithoutUnknown(_)
WithoutUnknown(evs) ==
    IF evs = <<>> THEN <<>>
    ELSE (IF UnknownEvent(Head(evs)) THEN <<>> ELSE <<Head(evs)>>)
             \o WithoutUnknown(Tail(evs))

Outcome ==
    [result |-> parse_result,
     paragraphs |-> IF parse_result = "Ok" THEN section.val ELSE <<>>]

\* C18: an open, close or self-closing event with a name outside the
\* vocabulary changes no local of the parser, and the outcome of a stream is
\* the outcome of the stream without such events.
C18_UnknownSkipped ==
    /\ [][ (parse_result = "running" /\ UnknownEvent(NextEvent))
               => UNCHANGED parserLocals ]_vars
    /\ [](ParseDone => Outcome = parse_section_xml(WithoutUnknown(events), overflow_checks))

\* a Section with content was returned for a stream holding an unknown event
C18_Witness ==
    /\ parse_result = "Ok" /\ section.val # <<>>
    /\ \E k \in 1..Len(events) : UnknownEvent(events[k])

(* ------------------ section parser: text destinations ----------------- *)
\* the events read so far and the elements of the parser's vocabulary they
\* leave open, outermost first
EventsRead == SubSeq(events, 1, reader_pos)
Opened == OpenStack(WithoutUnknown(EventsRead), <<>>)
Inside(tag) == \E i \in 1..Len(Opened) : NameIs(Opened[i], tag)

\* the buffer the next piece of text belongs to, by position in the document
TextTarget ==
    IF Inside(T_tbl) /\ Inside(T_caption) THEN "caption"
    ELSE IF Inside(T_tbl) /\ Inside(T_tc) THEN "cell"
    ELSE IF ~Inside(T_tbl) THEN "top"
    ELSE "none"

\* what the event about to be read contributes: the text of a text event
\* inside a text element, the expansion of a tab element
TextPiece ==
    IF NextEvent.kind = "Text"
    THEN (IF Inside(T_t) THEN NextEvent.text ELSE <<>>)
    ELSE ExpectedTab(NextEvent.attrs)

AppendsTo(target) ==
    /\ table_caption' =
           IF target = "caption" THEN table_caption \o TextPiece ELSE table_caption
    /\ current_cell'.text =
           IF target = "cell" THEN current_cell.text \o TextPiece ELSE current_cell.text
    /\ current_text' =
           IF target = "top" THEN current_text \o TextPiece ELSE current_text

\* C22: a text event or a tab expansion is appended to exactly the buffer
\* chosen by priority (the caption buffer inside a table caption, else the
\* current cell inside a table cell, else the top-level buffer outside any
\* table), the other buffers stay as they are, and text inside a table but
\* outside caption and cell is appended nowhere.
C22_TextRouting ==
    [][ (Reading("Text") \/ ReadingTag("Empty", T_tab)) => AppendsTo(TextTarget) ]_vars

(* ------------------ section parser: paragraph nesting ----------------- *)
TextRecord(t) == << [kind |-> "ParaText", text |-> t, control_char_positions |-> <<>>] >>

TopLevelOpen == ReadingTag("Start", T_p) /\ para_depth = 0 /\ ~Inside(T_tbl)
TopLevelClose == ReadingTag("End", T_p) /\ para_depth = 1 /\ ~Inside(T_tbl)
NestedClose == ReadingTag("End", T_p) /\ para_depth > 1 /\ ~Inside(T_tbl)

\* a paragraph open increments the depth, a close decrements it, and the
\* buffer of a top-level paragraph starts empty
DepthCounted ==
    /\ ReadingTag("Start", T_p) => para_depth' = para_depth + 1
    /\ ReadingTag("End", T_p) => para_depth' = para_depth - 1
    /\ TopLevelOpen => current_text' = <<>>

\* C23 as stated: the close of a top-level paragraph emits exactly one
\* Paragraph holding the text accumulated since it opened, and the close of a
\* nested paragraph emits none and puts a line separator after the text in
\* the top-level buffer; whatever the text is.
C23_NestingAsStated ==
    [][ /\ DepthCounted
        /\ TopLevelClose => paragraphs' = Append(paragraphs, TextRecord(current_text))
        /\ NestedClose => /\ paragraphs' = paragraphs
                          /\ current_text' = Append(current_text, "\n") ]_vars

\* C23: a paragraph open increments the depth and a close decrements it; the
\* close of a top-level paragraph (depth 1, outside any table) emits exactly
\* one Paragraph holding the text accumulated since it opened when that text
\* is not empty, and no Paragraph when it is empty; the close of a nested
\* paragraph (depth > 1, outside any table) emits no Paragraph and leaves its
\* text in the top-level buffer, followed by a line separator when the buffer
\* is not empty.
C23_ParagraphNesting ==
    [][ /\ DepthCounted
        /\ TopLevelClose =>
               /\ paragraphs' = IF current_text # <<>>
                                THEN Append(paragraphs, TextRecord(current_text))
                                ELSE paragraphs
        /\ NestedClose =>
               /\ paragraphs' = paragraphs
               /\ current_text' = IF current_text # <<>>
                                  THEN Append(current_text, "\n")
                                  ELSE current_text ]_vars

\* a top-level paragraph with text A and a nested paragraph with text B has
\* closed and left one Paragraph
C23_Witness ==
    /\ reader_pos > 0 /\ LastEvent.kind = "End" /\ NameIs(LastEvent.name, T_p)
    /\ para_depth = 0
    /\ paragraphs = << TextRecord(<<"A", "B", "\n">>) >>

(* ------------------- section parser: image records -------------------- *)
ImageRecord(ref) == << [kind |-> "HwpxImage", binary_item_ref |-> ref] >>

RECURSIVE ImageRecords(_)
ImageRecords(paras) ==
    IF paras = <<>> THEN <<>>
    ELSE (IF Head(paras)[1].kind = "HwpxImage" THEN <<Head(paras)>> ELSE <<>>)
             \o ImageRecords(Tail(paras))

\* the positions of the drawing containers open after the first n events,
\* outermost first
RECURSIVE OpenPics(_)
OpenPics(n) ==
    IF n = 0 THEN <<>>
    ELSE LET before == OpenPics(n - 1)
             e == events[n]
         IN  IF e.kind = "Start" /\ NameIs(e.name, T_pic) THEN Append(before, n)
             ELSE IF e.kind = "End" /\ NameIs(e.name, T_pic) /\ before # <<>>
             THEN SubSeq(before, 1, Len(before) - 1)
             ELSE before

IsImageRef(e) ==
    /\ e.kind = "Empty" /\ NameIs(e.name, T_img)
    /\ LastAttr(e.attrs, "binaryItemIDRef").some

\* the image references seen since the open of the innermost open container
RefsSinceOpen ==
    LET open == OpenPics(reader_pos)
    IN  IF open = <<>> THEN {}
        ELSE {k \in (open[Len(open)] + 1)..reader_pos : IsImageRef(events[k])}

\* C24: the close of a drawing container appends exactly one image record,
\* carrying the last image reference seen since the container's open (also
\* when another container was opened and closed in between); no other event
\* appends an image record, so a reference outside any container yields none.
C24_OneImagePerContainer ==
    [][ /\ (ReadingTag("End", T_pic) /\ RefsSinceOpen # {})
            => LET last == events[SetMax(RefsSinceOpen)]
               IN  ImageRecords(paragraphs') =
                       ImageRecords(paragraphs)
                           \o <<ImageRecord(LastAttr(last.attrs, "binaryItemIDRef").val)>>
        /\ (parse_result = "running" /\ ~ReadingTag("End", T_pic))
            => ImageRecords(paragraphs') = ImageRecords(paragraphs) ]_vars

\* every drawing container read so far was opened inside a paragraph or a
\* table cell
ContainersEnclosed ==
    \A n \in 1..reader_pos :
        (events[n].kind = "Start" /\ NameIs(events[n].name, T_pic))
            => LET around == OpenStack(WithoutUnknown(SubSeq(events, 1, n - 1)), <<>>)
               IN  \E i \in 1..Len(around) :
                       NameIs(around[i], T_p) \/ NameIs(around[i], T_tc)

HasRecord(para, kind) == \E i \in 1..Len(para) : para[i].kind = kind

\* C25: the image record of a drawing container goes into the paragraph (or
\* the table cell) the container lies in: no emitted Paragraph consists of an
\* image record alone.
C25_ImageInParagraph ==
    ContainersEnclosed =>
        \A i \in 1..Len(paragraphs) :
            HasRecord(paragraphs[i], "HwpxImage")
                => (HasRecord(paragraphs[i], "ParaText") \/ HasRecord(paragraphs[i], "Table"))

(* ------------------ section parser: tables and cells ------------------ *)
\* white space as str::trim removes it
IsSpace(c) == c = " " \/ c = "\n" \/ c = "\t"

\* s without its leading and trailing white space
Stripped(s) ==
    LET inner == {i \in 1..Len(s) : ~IsSpace(s[i])}
    IN  IF inner = {} THEN <<>>
        ELSE SubSeq(s, CHOOSE i \in inner : \A j \in inner : i <= j, SetMax(inner))

\* the paragraphs an event has appended
Added == SubSeq(paragraphs', Len(paragraphs) + 1, Len(paragraphs'))
AppendsOnly ==
    /\ Len(paragraphs') >= Len(paragraphs)
    /\ SubSeq(paragraphs', 1, Len(paragraphs)) = paragraphs

IsTablePara(para) == Len(para) = 1 /\ para[1].kind = "Table"

\* C26: at a table close that completes, a caption that is not empty after
\* trimming is appended as a Paragraph of its own, directly followed by the
\* table's Paragraph (when the table has one) and by nothing else; an empty
\* caption appends no caption Paragraph; and the caption buffer is empty after
\* the close, and after every table open, so it cannot reach a later table.
C26_CaptionBeforeTable ==
    [][ /\ (ReadingTag("End", T_tbl) /\ parse_result' = "running")
            => /\ AppendsOnly
               /\ IF Stripped(table_caption) # <<>>
                  THEN /\ Added # <<>>
                       /\ Added[1] = TextRecord(Stripped(table_caption))
                       /\ \/ Len(Added) = 1
                          \/ Len(Added) = 2 /\ IsTablePara(Added[2])
                  ELSE \/ Added = <<>>
                       \/ Len(Added) = 1 /\ IsTablePara(Added[1])
               /\ (table_rows # <<>>) => IsTablePara(Added[Len(Added)])
               /\ table_caption' = <<>>
        /\ ReadingTag("Start", T_tbl) => table_caption' = <<>> ]_vars

\* a table with the caption " C " has closed: the Paragraph C, then the table
C26_Witness ==
    /\ reader_pos > 0 /\ LastEvent.kind = "End" /\ NameIs(LastEvent.name, T_tbl)
    /\ parse_result = "running"
    /\ Len(paragraphs) = 2
    /\ paragraphs[1] = TextRecord(<<"C">>)
    /\ IsTablePara(paragraphs[2])
    /\ table_caption = <<>>

(* ------------------ section parser: rows of a table ------------------- *)
IsStart(k, tag) == events[k].kind = "Start" /\ NameIs(events[k].name, tag)
IsEnd(k, tag) == events[k].kind = "End" /\ NameIs(events[k].name, tag)

\* the positions of the opening events of the elements of the vocabulary
\* that are open after the first n events, outermost first
RECURSIVE OpenPos(_)
OpenPos(n) ==
    IF n = 0 THEN <<>>
    ELSE LET before == OpenPos(n - 1)
             e == events[n]
         IN  IF UnknownEvent(e) THEN before
             ELSE IF e.kind = "Start" THEN Append(before, n)
             ELSE IF e.kind = "End" /\ before # <<>>
             THEN SubSeq(before, 1, Len(before) - 1)
             ELSE before

\* the opening event of the element that the closing event at k closes, and
\* of the element around it (0 when there is none)
OpenOf(k) ==
    LET open == OpenPos(k - 1) IN IF open = <<>> THEN 0 ELSE open[Len(open)]
ParentOf(k) ==
    LET open == OpenPos(k) IN IF open = <<>> THEN 0 ELSE open[Len(open)]

\* the closing events, up to position n, of the cells of the row opened at o
CellsOfRow(o, n) == {k \in 1..n : IsEnd(k, T_tc) /\ ParentOf(k) = o}

\* the closing events, up to position n, of the rows of the table opened at
\* o that have at least one cell
RowsOfTable(o, n) ==
    {k \in 1..n : IsEnd(k, T_tr) /\ ParentOf(k) = o /\ CellsOfRow(OpenOf(k), k) # {}}

\* the j-th position of a set of positions, in ascending order
Nth(S, j) == CHOOSE x \in S : Cardinality({y \in S : y < x}) = j - 1

\* the first character of the text inside the element closed at k
FirstCharOf(k) ==
    LET texts == {t \in (OpenOf(k) + 1)..(k - 1) :
                      events[t].kind = "Text" /\ events[t].text # <<>>}
    IN  events[Nth(texts, 1)].text[1]

\* the cell closed at k has a cellAddr sub-element with a rowAddr attribute
HasRowAddr(k) ==
    \E a \in (OpenOf(k) + 1)..(k - 1) :
        /\ events[a].kind = "Empty" /\ NameIs(events[a].name, T_cellAddr)
        /\ LastAttr(events[a].attrs, "rowAddr").some

\* a row close appends the row's cells, in the order of their closes
RowAppended ==
    LET closes == CellsOfRow(OpenOf(reader_pos + 1), reader_pos)
    IN  IF closes = {} THEN table_rows' = table_rows
        ELSE /\ Len(table_rows') = Len(table_rows) + 1
             /\ SubSeq(table_rows', 1, Len(table_rows)) = table_rows
             /\ LET row == table_rows'[Len(table_rows')]
                IN  /\ Len(row) = Cardinality(closes)
                    /\ \A j \in 1..Len(row) :
                           row[j].text # <<>> /\ row[j].text[1] = FirstCharOf(Nth(closes, j))

\* the table emitted at a close has the table's non-empty rows
RowsEmitted ==
    LET rows == RowsOfTable(OpenOf(reader_pos + 1), reader_pos)
        cells == UNION {CellsOfRow(OpenOf(r), r) : r \in rows}
        t == paragraphs'[Len(paragraphs')][1].table
    IN  rows # {} =>
            /\ paragraphs' # paragraphs
            /\ IsTablePara(paragraphs'[Len(paragraphs')])
            /\ t.row_count = Cardinality(rows)
            /\ Len(t.cells) = Cardinality(cells)
            /\ \A j \in 1..Len(t.cells) :
                   LET c == Nth(cells, j)
                   IN  ~HasRowAddr(c) =>
                           t.cells[j].row_address
                               = Cardinality({r \in rows : r < c})

\* C27: a row close appends the cells closed in that row, in order, as one
\* row when there is at least one and appends nothing otherwise; the table
\* emitted at the table's close declares as many rows as it has non-empty
\* rows, and a cell without explicit row address carries the index of its row
\* among them.
C27_RowsOfCells ==
    [][ /\ ReadingTag("End", T_tr) => RowAppended
        /\ (ReadingTag("End", T_tbl) /\ parse_result' = "running") => RowsEmitted ]_vars

(* ------------------ section parser: text of a cell -------------------- *)
\* the element opened at o is open after the first n events
OpenAt(o, n) == \E i \in 1..Len(OpenPos(n)) : OpenPos(n)[i] = o

\* the event at t lies in a table opened after position o
InTableWithin(o, t) ==
    \E i \in 1..Len(OpenPos(t)) : OpenPos(t)[i] > o /\ IsStart(OpenPos(t)[i], T_tbl)

\* the text contributed by the events a..b to the element opened at o: text
\* events inside a text element and tab expansions, tables opened inside the
\* element left out
RECURSIVE TextWithin(_, _, _)
TextWithin(o, a, b) ==
    IF a > b THEN <<>>
    ELSE LET e == events[a]
             inText == \E i \in 1..Len(OpenPos(a)) : IsStart(OpenPos(a)[i], T_t)
             piece == IF InTableWithin(o, a) THEN <<>>
                      ELSE IF e.kind = "Text" /\ inText THEN e.text
                      ELSE IF e.kind = "Empty" /\ NameIs(e.name, T_tab)
                      THEN ExpectedTab(e.attrs)
                      ELSE <<>>
         IN  piece \o TextWithin(o, a + 1, b)

\* the closing events of the paragraphs directly inside the cell closed at k
ParasOfCell(k) == {e \in 1..(k - 1) : IsEnd(e, T_p) /\ ParentOf(e) = OpenOf(k)}

\* the texts of these paragraphs, in order
CellParaTexts(k) ==
    LET closes == ParasOfCell(k)
    IN  [j \in 1..Cardinality(closes) |->
            LET e == Nth(closes, j) IN TextWithin(OpenOf(e), OpenOf(e) + 1, e - 1)]

RECURSIVE NoTrailingBreaks(_)
NoTrailingBreaks(s) ==
    IF s # <<>> /\ s[Len(s)] = "\n" THEN NoTrailingBreaks(SubSeq(s, 1, Len(s) - 1)) ELSE s

FreshCell ==
    [text |-> <<>>, col_span |-> 1, row_span |-> 1,
     col_addr |-> [some |-> FALSE], row_addr |-> [some |-> FALSE]]

\* C28: a cell open starts from a fresh accumulator (empty text, spans 1, no
\* addresses); at the cell's close exactly one cell is appended to the
\* current row, and its text is the texts of the cell's paragraphs with
\* exactly one line separator between consecutive paragraphs and no line
\* separator at the end.
C28_CellText ==
    [][ /\ ReadingTag("Start", T_tc) => current_cell' = FreshCell
        /\ ReadingTag("End", T_tc) =>
               /\ Len(current_row') = Len(current_row) + 1
               /\ SubSeq(current_row', 1, Len(current_row)) = current_row
               /\ current_row'[Len(current_row')].text =
                      NoTrailingBreaks(Join(CellParaTexts(reader_pos + 1), <<"\n">>)) ]_vars

(* ------------------ section parser: spans and addresses --------------- *)
\* C29: every TableCell of every emitted table has row_span >= 1 and
\* col_span >= 1, whatever the cellSpan attributes were (absent, not a
\* number, or 0).
C29_SpansAtLeastOne ==
    \A t \in EmittedTables :
        \A i \in 1..Len(t.cells) :
            t.cells[i].row_span >= 1 /\ t.cells[i].col_span >= 1

\* the sum of the col_span of the first n cells of a row
RECURSIVE SpanTotal(_, _)
SpanTotal(row, n) == IF n = 0 THEN 0 ELSE SpanTotal(row, n - 1) + row[n].col_span

\* the number of cells in the first n rows
RECURSIVE CellsBefore(_, _)
CellsBefore(rows, n) == IF n = 0 THEN 0 ELSE CellsBefore(rows, n - 1) + Len(rows[n])

\* C30: in the table emitted at a table close, a cell without explicit
\* column address has as column address the sum of the col_span of the cells
\* before it in its row (0 for the first), whether or not those cells have
\* explicit column addresses.
C30_InferredColumn ==
    [][ (ReadingTag("End", T_tbl) /\ parse_result' = "running" /\ table_rows # <<>>)
            => LET t == paragraphs'[Len(paragraphs')][1].table
               IN  \A i \in 1..Len(table_rows) :
                       \A j \in 1..Len(table_rows[i]) :
                           ~table_rows[i][j].col_addr.some
                               => t.cells[CellsBefore(table_rows, i - 1) + j].col_address
                                      = SpanTotal(table_rows[i], j - 1) ]_vars

(* ======================= hwpx::parse (hwpx/mod.rs) ==================== *)
MaxSections == 2   \* most section files of a container

\* str::contains
Contains(s, sub) ==
    \E i \in 0..(Len(s) - Len(sub)) : SubSeq(s, i + 1, i + Len(sub)) = sub

\* the result of reading a member file: not there, not UTF-8, or its content
Absent == [read |-> "absent"]
NotUtf8 == [read |-> "not_utf8"]
Content(c) == [read |-> "ok", content |-> c]

\* HwpxContainer::verify_mimetype: a missing mimetype file is accepted
verify_mimetype(mimetype) ==
    IF mimetype.read = "absent" THEN TRUE
    ELSE LET trimmed == Trim(mimetype.content)
         IN  Contains(trimmed, <<"h", "w", "p">>)
                 \/ Contains(trimmed, <<"o", "w", "p", "m", "l">>)

\* the first Eof or Err of an event stream: how a loop that only looks for
\* them ends
RECURSIVE StreamEnd(_)
StreamEnd(evs) ==
    IF evs = <<>> THEN "Eof"
    ELSE IF Head(evs).kind \in {"Eof", "Err"} THEN Head(evs).kind
    ELSE StreamEnd(Tail(evs))

\* header::parse_file_header: any failure on version.xml gives the default
DEFAULT_VERSION == "5.1.0.0"
parse_file_header(version_xml) ==
    [signature |-> "HWP Document File",
     version |-> IF version_xml.read = "ok" /\ StreamEnd(version_xml.content) = "Eof"
                 THEN "version.xml" ELSE DEFAULT_VERSION]

\* header::parse_doc_info: header.xml must be read and decoded
parse_doc_info(header_xml) ==
    IF header_xml.read = "ok" /\ StreamEnd(header_xml.content) = "Eof"
    THEN SomeVal([document_properties |-> "default"])
    ELSE NoneVal

\* bindata::parse_bindata: unreadable files are skipped
RECURSIVE parse_bindata(_, _)
parse_bindata(files, index) ==
    IF files = <<>> THEN <<>>
    ELSE (IF Head(files).read = "ok"
          THEN <<[index |-> index, data |-> Head(files).content]>>
          ELSE <<>>) \o parse_bindata(Tail(files), index + 1)

(* ------------------ container (hwpx/container.rs) --------------------- *)
\* str::starts_with
HasPrefix(s, prefix) ==
    Len(s) >= Len(prefix) /\ SubSeq(s, 1, Len(prefix)) = prefix

CONTENTS_SECTION ==
    <<"C", "o", "n", "t", "e", "n", "t", "s", "/", "s", "e", "c", "t", "i", "o", "n">>
SECTION_PREFIX == <<"s", "e", "c", "t", "i", "o", "n">>
XML_SUFFIX == <<".", "x", "m", "l">>

\* usize::MAX of a 64-bit target, as decimal digits
USIZE_DIGITS ==
    <<"1", "8", "4", "4", "6", "7", "4", "4", "0", "7",
      "3", "7", "0", "9", "5", "5", "1", "6", "1", "5">>

\* path.split('/').next_back(): what follows the last '/'
RECURSIVE LastComponent(_)
LastComponent(path) ==
    IF \E i \in 1..Len(path) : path[i] = "/"
    THEN LastComponent(Tail(path))
    ELSE path

\* str::strip_prefix / str::strip_suffix
StripPrefix(s, prefix) ==
    IF HasPrefix(s, prefix) THEN SomeVal(SubSeq(s, Len(prefix) + 1, Len(s))) ELSE NoneVal
StripSuffix(s, suffix) ==
    IF EndsWith(s, suffix) THEN SomeVal(SubSeq(s, 1, Len(s) - Len(suffix))) ELSE NoneVal

\* extract_section_number: "Contents/section10.xml" -> Some(10)
extract_section_number(path) ==
    LET rest == StripPrefix(LastComponent(path), SECTION_PREFIX)
        num_str == IF rest.some THEN StripSuffix(rest.val, XML_SUFFIX) ELSE NoneVal
    IN  IF num_str.some THEN ParseUnsigned(num_str.val, USIZE_DIGITS) ELSE NoneVal

\* the filter of get_section_files
IsSectionFile(name) == HasPrefix(name, CONTENTS_SECTION) /\ EndsWith(name, XML_SUFFIX)

\* num_a.cmp(&num_b) is not Greater
SectionLeq(a, b) ==
    UnwrapOr(extract_section_number(a), 0) <= UnwrapOr(extract_section_number(b), 0)

\* stable insertion of a name into a list sorted by section number
RECURSIVE InsertByNumber(_, _)
InsertByNumber(sorted, name) ==
    IF sorted = <<>> THEN <<name>>
    ELSE IF SectionLeq(Head(sorted), name)
         THEN <<Head(sorted)>> \o InsertByNumber(Tail(sorted), name)
         ELSE <<name>> \o sorted

\* sections.sort_by(...): stable
RECURSIVE SortByNumber(_)
SortByNumber(names) ==
    IF names = <<>> THEN <<>>
    ELSE InsertByNumber(SortByNumber(SubSeq(names, 1, Len(names) - 1)),
                        names[Len(names)])

\* HwpxContainer::get_section_files over archive.file_names()
get_section_files_Unsorted(file_names) == SelectSeq(file_names, IsSectionFile)

get_section_files(file_names) == SortByNumber(SelectSeq(file_names, IsSectionFile))

\* HwpxContainer::read_file_string for a section member: section_files holds
\* the section members' files in archive order
read_file_string(c, path) ==
    LET members == SelectSeq(c.file_names, IsSectionFile)
    IN  c.section_files[CHOOSE i \in 1..Len(members) : members[i] = path]

\* "Contents/section<N>.xml" and the other member names explored
SectionName(num) == CONTENTS_SECTION \o num \o XML_SUFFIX
HEADER_NAME ==
    <<"C", "o", "n", "t", "e", "n", "t", "s", "/", "h", "e", "a", "d", "e", "r",
      ".", "x", "m", "l">>

\* member files of the containers explored
Mimetypes ==
    { Absent,
      Content(<<"a", "/", "h", "w", "p", "+", "z", "i", "p", "\n">>),
      Content(<<"o", "w", "p", "m", "l">>),
      Content(<<"z", "i", "p">>) }
XmlFiles == { Absent, NotUtf8, Content(<<EofEv>>), Content(<<StartEv(<<"x">>), ErrEv>>) }
SectionFiles ==
    { NotUtf8,
      Content(Docs[1] \o <<EofEv>>),
      Content(Docs[3] \o <<EofEv>>),
      Content(Truncated(Docs[1], 8, ErrEv)),
      Content(TableStream(<<6>>, 1) \o <<EofEv>>) }
BinFiles == { <<>>, <<Content(<<"I">>)>>, <<Absent, Content(<<"J">>)>> }
Previews == { Absent, NotUtf8, Content(<<"A">>) }

InitDoc ==
    /\ \E zip_ok \in BOOLEAN, mimetype \in Mimetypes, version_xml \in XmlFiles,
          header_xml \in XmlFiles, n \in 0..MaxSections, bindata \in BinFiles,
          preview \in Previews :
           \E section_files \in [1..n -> SectionFiles] :
              container = SomeVal([zip_ok |-> zip_ok, mimetype |-> mimetype,
                                   version_xml |-> version_xml,
                                   header_xml |-> header_xml,
                                   file_names |->
                                       <<HEADER_NAME>>
                                           \o [i \in 1..n |-> SectionName(<<Digits[i]>>)],
                                   section_files |-> section_files,
                                   bindata |-> bindata, preview |-> preview])
    /\ overflow_checks \in BOOLEAN
    /\ document = NoneVal
    /\ sections = <<>>
    /\ doc_result = NoneVal
    /\ doc_pc = "open"
    /\ ParseIdle
    /\ DetIdle
    /\ data = <<>>
    /\ ChartIdle
    /\ text = <<>>
    /\ control_char_positions = <<>>
    /\ sorted_positions = <<>>
    /\ last_char_pos = 0
    /\ para_text_result = <<>>
    /\ seg_pc = "idle"
    /\ use_html = FALSE
    /\ table = NoTable
    /\ output = NoOutput
    /\ tbl_pc = "idle"
    /\ ImgIdle

notDoc == <<segVars, tblVars, use_html, parseVars, detVars, chartVars, imgVars>>

\* the ? operator: the error is returned and the locals are dropped
Fails(reason) ==
    /\ doc_result' = SomeVal([kind |-> "Err", reason |-> reason])
    /\ document' = NoneVal
    /\ sections' = <<>>
    /\ doc_pc' = "done"

\* HwpxContainer::open
DocOpen ==
    /\ doc_pc = "open"
    /\ IF container.val.zip_ok
       THEN doc_pc' = "mimetype" /\ UNCHANGED <<document, sections, doc_result>>
       ELSE Fails("ZipParseError")
    /\ UNCHANGED <<container, notDoc>>

\* container.verify_mimetype()
DocMimetype ==
    /\ doc_pc = "mimetype"
    /\ IF verify_mimetype(container.val.mimetype)
       THEN doc_pc' = "file_header" /\ UNCHANGED <<document, sections, doc_result>>
       ELSE Fails("InvalidHwpxStructure")
    /\ UNCHANGED <<container, notDoc>>

\* header::parse_file_header and HwpDocument::new
DocFileHeader ==
    /\ doc_pc = "file_header"
    /\ document' = SomeVal([file_header |-> parse_file_header(container.val.version_xml),
                            doc_info |-> NoneVal, body_text |-> NoneVal,
                            bin_data |-> NoneVal, preview_text |-> NoneVal])
    /\ doc_pc' = "doc_info"
    /\ UNCHANGED <<container, sections, doc_result, notDoc>>

\* header::parse_doc_info
DocInfo ==
    /\ doc_pc = "doc_info"
    /\ LET info == parse_doc_info(container.val.header_xml)
       IN  IF info.some
           THEN /\ document' = SomeVal([document.val EXCEPT !.doc_info = info])
                /\ doc_pc' = "sections"
                /\ UNCHANGED <<sections, doc_result>>
           ELSE Fails("header.xml")
    /\ UNCHANGED <<container, notDoc>>

\* parse_sections: the test for an empty list, then one section file per step
DocSection ==
    /\ doc_pc = "sections"
    /\ LET files == get_section_files(container.val.file_names)
           file == read_file_string(container.val, files[Len(sections) + 1])
           parsed == parse_section_xml(file.content, overflow_checks)
       IN  IF files = <<>> THEN Fails("No section files")
           ELSE IF Len(sections) = Len(files)
           THEN /\ document' = SomeVal([document.val EXCEPT
                                           !.body_text = SomeVal(sections)])
                /\ doc_pc' = "bindata"
                /\ UNCHANGED <<sections, doc_result>>
           ELSE IF file.read # "ok" THEN Fails("EncodingError")
           ELSE IF parsed.result = "Err" THEN Fails("XmlParseError")
           ELSE IF parsed.result = "panic"
           THEN /\ doc_result' = SomeVal([kind |-> "panic"])
                /\ document' = NoneVal
                /\ sections' = <<>>
                /\ doc_pc' = "done"
           ELSE /\ sections' = Append(sections,
                                      [index |-> Len(sections) % U16_MOD,
                                       paragraphs |-> parsed.paragraphs])
                /\ UNCHANGED <<document, doc_result, doc_pc>>
    /\ UNCHANGED <<container, notDoc>>

\* bindata::parse_bindata
DocBindata ==
    /\ doc_pc = "bindata"
    /\ document' = SomeVal([document.val EXCEPT
                               !.bin_data = SomeVal(parse_bindata(container.val.bindata, 0))])
    /\ doc_pc' = "preview"
    /\ UNCHANGED <<container, sections, doc_result, notDoc>>

\* the preview text, when it can be read, and Ok(document)
DocFinish ==
    /\ doc_pc = "preview"
    /\ LET preview == container.val.preview
           full == [document.val EXCEPT
                       !.preview_text = IF preview.read = "ok"
                                        THEN SomeVal(preview.content) ELSE NoneVal]
       IN  /\ document' = SomeVal(full)
           /\ doc_result' = SomeVal([kind |-> "Ok", document |-> full])
    /\ doc_pc' = "done"
    /\ UNCHANGED <<container, sections, notDoc>>

NextDoc ==
    \/ DocOpen
    \/ DocMimetype
    \/ DocFileHeader
    \/ DocInfo
    \/ DocSection
    \/ DocBindata
    \/ DocFinish

SpecDoc == InitDoc /\ [][NextDoc]_vars

(* ------------------------ hwpx::parse: claims ------------------------- *)
\* a decode error in a section's event stream
HasDecodeError(file) ==
    file.read = "ok" /\ \E k \in 1..Len(file.content) : file.content[k].kind = "Err"

\* some stage of the parse fails on this container
StageFails(c) ==
    \/ ~c.zip_ok
    \/ c.mimetype.read = "ok" /\ ~verify_mimetype(c.mimetype)
    \/ c.header_xml.read # "ok" \/ StreamEnd(c.header_xml.content) = "Err"
    \/ c.section_files = <<>>
    \/ \E i \in 1..Len(c.section_files) :
           c.section_files[i].read # "ok" \/ HasDecodeError(c.section_files[i])

\* every part of the document is there, one Section per section file
Complete(doc, c) ==
    /\ doc.doc_info.some
    /\ doc.body_text.some
    /\ Len(doc.body_text.val) = Len(c.section_files)
    /\ \A i \in 1..Len(c.section_files) : doc.body_text.val[i].index = i - 1
    /\ doc.bin_data.some

\* C17: when a stage fails (container open, mimetype check, header read, no
\* section file, a section that cannot be decoded) hwpx::parse returns an
\* error and no document; when none fails it returns a complete document.
C17_FailClosed ==
    doc_pc = "done" =>
        IF StageFails(container.val)
        THEN doc_result.val.kind = "Err"
        ELSE doc_result.val.kind = "Ok" /\ Complete(doc_result.val.document, container.val)

(* ===================== detect_format (detect.rs) ====================== *)
CFB_MAGIC == <<208, 207, 17, 224, 161, 177, 26, 225>>
ZIP_MAGIC == <<80, 75, 3, 4>>

\* data.len() >= MAGIC.len() && data[..MAGIC.len()] == MAGIC
HasMagic_FirstByte(bytes, magic) == bytes # <<>> /\ bytes[1] = magic[1]
HasMagic(bytes, magic) ==
    Len(bytes) >= Len(magic) /\ SubSeq(bytes, 1, Len(magic)) = magic

detect_format(bytes) ==
    IF HasMagic(bytes, CFB_MAGIC) THEN "Hwp5"
    ELSE IF HasMagic(bytes, ZIP_MAGIC) THEN "Hwpx"
    ELSE "Unknown"

\* inputs: a prefix of a magic, possibly with one byte changed, followed by
\* nothing, zero bytes or a whole magic
DetTails == { <<>>, <<0, 0>>, ZIP_MAGIC, CFB_MAGIC }
Damaged(bytes, i) == [k \in 1..Len(bytes) |-> IF k = i THEN 0 ELSE bytes[k]]

InitDetect ==
    /\ \E magic \in {CFB_MAGIC, ZIP_MAGIC}, tail \in DetTails :
           \E n \in 0..Len(magic) :
               \E i \in 0..n :
                   data = Damaged(SubSeq(magic, 1, n), i) \o tail
    /\ format = "none"
    /\ det_pc = "start"
    /\ ParseIdle
    /\ overflow_checks = FALSE
    /\ ChartIdle
    /\ DocIdle
    /\ text = <<>>
    /\ control_char_positions = <<>>
    /\ sorted_positions = <<>>
    /\ last_char_pos = 0
    /\ para_text_result = <<>>
    /\ seg_pc = "idle"
    /\ use_html = FALSE
    /\ table = NoTable
    /\ output = NoOutput
    /\ tbl_pc = "idle"
    /\ ImgIdle

\* one call of detect_format
DetectFormat ==
    /\ det_pc = "start"
    /\ format' = detect_format(data)
    /\ det_pc' = "done"
    /\ UNCHANGED <<data, segVars, tblVars, use_html, parseVars, chartVars, docVars,
                   imgVars>>

NextDetect == DetectFormat

SpecDetect == InitDetect /\ [][NextDetect]_vars

(* ----------------------- detect_format: claims ------------------------ *)
BeginsWith(bytes, magic) ==
    Len(bytes) >= Len(magic) /\ \A i \in 1..Len(magic) : bytes[i] = magic[i]

\* C19: detect_format returns Hwp5 exactly when the data begins with the 8 CFB
\* magic bytes, Hwpx exactly when it does not and begins with the 4 ZIP magic
\* bytes, and Unknown otherwise (empty and too short input included).
C19_DetectFormat ==
    det_pc = "done" =>
        /\ format = "Hwp5" <=> BeginsWith(data, CFB_MAGIC)
        /\ format = "Hwpx" <=> (~BeginsWith(data, CFB_MAGIC) /\ BeginsWith(data, ZIP_MAGIC))
        /\ format = "Unknown" <=> (~BeginsWith(data, CFB_MAGIC) /\ ~BeginsWith(data, ZIP_MAGIC))

\* input that starts like the CFB magic but is too short for it
C19_Witness ==
    /\ det_pc = "done" /\ format = "Unknown"
    /\ Len(data) = 2 /\ data = SubSeq(CFB_MAGIC, 1, 2)

(* =================== ChartData::parse (chart_data.rs) ================= *)
MaxChartTail == 6   \* most bytes after the two 4-byte ids

ChartBytes == {0, 65}

\* INT32::from_le_bytes
from_le_bytes(b) ==
    b[1] + 256 * b[2] + 65536 * b[3]
        + 16777216 * (IF b[4] >= 128 THEN b[4] - 256 ELSE b[4])

\* the fallback: no chart object, the whole input as raw data
RawOnly(bytes) == [ok |-> TRUE, vt_chart |-> FALSE, raw_data |-> bytes]

\* the offset after the name: the terminator is skipped only when there is one
AfterName_NoBound(bytes, off) == off + 1
AfterName(bytes, off) == IF off < Len(bytes) THEN off + 1 ELSE off

\* data[offset..] when offset < data.len(), else nothing
Remaining(bytes, off) ==
    IF off < Len(bytes) THEN SubSeq(bytes, off + 1, Len(bytes)) ELSE <<>>

ChartIds == { <<0, 0, 0, 0, 0, 0, 0, 0>>, <<1, 0, 0, 0, 2, 0, 0, 255>> }

InitChart ==
    /\ \/ \E n \in 0..7 : data \in [1..n -> ChartBytes]
       \/ \E ids \in ChartIds, n \in 0..MaxChartTail :
              \E tail \in [1..n -> ChartBytes] : data = ids \o tail
    /\ offset = 0
    /\ stored_type_id = 0
    /\ seen_types = {}
    /\ chart = NoneVal
    /\ chart_pc = "start"
    /\ format = "none"
    /\ det_pc = "idle"
    /\ ParseIdle
    /\ overflow_checks = FALSE
    /\ DocIdle
    /\ text = <<>>
    /\ control_char_positions = <<>>
    /\ sorted_positions = <<>>
    /\ last_char_pos = 0
    /\ para_text_result = <<>>
    /\ seg_pc = "idle"
    /\ use_html = FALSE
    /\ table = NoTable
    /\ output = NoOutput
    /\ tbl_pc = "idle"
    /\ ImgIdle

notChart == <<data, format, det_pc, segVars, tblVars, use_html, parseVars, docVars,
              imgVars>>

\* ChartData::parse up to the call of parse_chart_obj
ChartBegin ==
    /\ chart_pc = "start"
    /\ IF Len(data) < 8
       THEN chart' = RawOnly(data) /\ chart_pc' = "done"
       ELSE chart_pc' = "obj" /\ UNCHANGED chart
    /\ UNCHANGED <<offset, stored_type_id, seen_types, notChart>>

\* parse_chart_obj: the length test, then id and StoredtypeId
ChartObjIds ==
    /\ chart_pc = "obj"
    /\ IF offset + 8 > Len(data)
       THEN /\ chart' = RawOnly(data)
            /\ chart_pc' = "done"
            /\ UNCHANGED <<offset, stored_type_id>>
       ELSE LET id == from_le_bytes(SubSeq(data, offset + 5, offset + 8))
            IN  /\ stored_type_id' = id
                /\ offset' = offset + 8
                /\ chart_pc' = IF id \notin seen_types THEN "name" ELSE "make"
                /\ UNCHANGED chart
    /\ UNCHANGED <<seen_types, notChart>>

\* one character of StoredName
ChartNameChar ==
    /\ chart_pc = "name"
    /\ offset < Len(data) /\ data[offset + 1] # 0
    /\ offset' = offset + 1
    /\ UNCHANGED <<stored_type_id, seen_types, chart, chart_pc, notChart>>

\* the end of StoredName: its terminator, or the end of the data
ChartNameEnd ==
    /\ chart_pc = "name"
    /\ ~(offset < Len(data) /\ data[offset + 1] # 0)
    /\ offset' = AfterName(data, offset)
    /\ chart_pc' = "version"
    /\ UNCHANGED <<stored_type_id, seen_types, chart, notChart>>

\* StoredVersion, when four bytes are left
ChartVersion ==
    /\ chart_pc = "version"
    /\ offset' = IF offset + 4 <= Len(data) THEN offset + 4 ELSE offset
    /\ seen_types' = seen_types \cup {stored_type_id}
    /\ chart_pc' = "make"
    /\ UNCHANGED <<stored_type_id, chart, notChart>>

\* Ok(Some(vt_chart)) and the remaining bytes
ChartFinish ==
    /\ chart_pc = "make"
    /\ chart' = [ok |-> TRUE, vt_chart |-> TRUE, raw_data |-> Remaining(data, offset)]
    /\ chart_pc' = "done"
    /\ UNCHANGED <<offset, stored_type_id, seen_types, notChart>>

NextChart ==
    \/ ChartBegin
    \/ ChartObjIds
    \/ ChartNameChar
    \/ ChartNameEnd
    \/ ChartVersion
    \/ ChartFinish

SpecChart == InitChart /\ [][NextChart]_vars

(* --------------------- ChartData::parse: claims ----------------------- *)
Suffix(bytes, from) == [k \in 1..(Len(bytes) - from) |-> bytes[from + k]]

\* C20: ChartData::parse returns Ok for every input; the read offset never
\* passes the end of the input; input shorter than 8 bytes gives no chart
\* object and the whole input as raw_data; longer input gives a chart object
\* with the unconsumed suffix as raw_data, or no chart object and the whole
\* input.
C20_ChartParseTotal ==
    /\ offset <= Len(data)
    /\ chart_pc = "done" =>
           /\ chart.ok
           /\ Len(data) < 8 => (~chart.vt_chart /\ chart.raw_data = data)
           /\ Len(data) >= 8 =>
                  \/ chart.vt_chart /\ chart.raw_data = Suffix(data, offset)
                  \/ ~chart.vt_chart /\ chart.raw_data = data

\* a name without terminator was read up to the end of the input
C20_Witness ==
    /\ chart_pc = "done" /\ chart.vt_chart
    /\ offset = Len(data) /\ Len(data) > 8 /\ data[Len(data)] # 0
    /\ chart.raw_data = <<>>

(* ============ format_image_markdown (viewer/markdown/common.rs) ======== *)
MaxImgTail == 2    \* most characters after the leading signature

\* str::starts_with
StartsWith_FirstChar(s, prefix) == s # <<>> /\ s[1] = prefix[1]
StartsWith(s, prefix) ==
    Len(s) >= Len(prefix) /\ SubSeq(s, 1, Len(prefix)) = prefix

PNG_SIGNATURE == <<"i", "V", "B", "O", "R", "w">>
JPEG_SIGNATURE == <<"/", "9", "j", "/">>
BMP_SIGNATURE == <<"Q", "k">>
IMAGE_PNG == <<"i", "m", "a", "g", "e", "/", "p", "n", "g">>
IMAGE_JPEG == <<"i", "m", "a", "g", "e", "/", "j", "p", "e", "g">>
IMAGE_BMP == <<"i", "m", "a", "g", "e", "/", "b", "m", "p">>
OCTET_STREAM == <<"a", "p", "p", "l", "i", "c", "a", "t", "i", "o", "n", "/", "o", "c", "t", "e", "t", "-", "s", "t", "r", "e", "a", "m">>

detect_mime_type_from_base64(b64) ==
    IF StartsWith(b64, PNG_SIGNATURE) THEN IMAGE_PNG
    ELSE IF StartsWith(b64, JPEG_SIGNATURE) THEN IMAGE_JPEG
    ELSE IF StartsWith(b64, BMP_SIGNATURE) THEN IMAGE_BMP
    ELSE OCTET_STREAM

\* the alphabet of the STANDARD base64 engine
Base64Alphabet ==
    {
      "A", "B", "C", "D", "E", "F", "G", "H", "I", "J", "K", "L", "M",
      "N", "O", "P", "Q", "R", "S", "T", "U", "V", "W", "X", "Y", "Z",
      "a", "b", "c", "d", "e", "f", "g", "h", "i", "j", "k", "l", "m",
      "n", "o", "p", "q", "r", "s", "t", "u", "v", "w", "x", "y", "z",
      "0", "1", "2", "3", "4", "5", "6", "7", "8", "9", "+", "/" }

\* STANDARD.decode succeeds: (for data without '=' padding) every character
\* is in the alphabet and the length is a multiple of four
DecodesOk(b64) ==
    /\ \A i \in 1..Len(b64) : b64[i] \in Base64Alphabet
    /\ Len(b64) % 4 = 0

\* get_extension_from_bindata_id: the first Embedding record with this id
RECURSIVE get_extension_from_bindata_id(_, _)
get_extension_from_bindata_id(records, id) ==
    IF records = <<>> THEN <<"j", "p", "g">>
    ELSE IF Head(records).kind = "Embedding" /\ Head(records).binary_data_id = id
    THEN Head(records).extension
    ELSE get_extension_from_bindata_id(Tail(records), id)

HexDigits == <<"0", "1", "2", "3", "4", "5", "6", "7", "8", "9", "A", "B", "C", "D", "E", "F">>

\* {:04X} of a WORD
Hex4(n) ==
    << HexDigits[((n \div 4096) % 16) + 1], HexDigits[((n \div 256) % 16) + 1],
       HexDigits[((n \div 16) % 16) + 1], HexDigits[(n % 16) + 1] >>

\* format!("BIN{bindata_id:04X}.{extension}")
ImageFileName(records, id) ==
    <<"B", "I", "N">> \o Hex4(id) \o <<".">> \o get_extension_from_bindata_id(records, id)

\* Path::new(dir_path).join(file_name), as a string
PathJoin(dir, name) ==
    IF dir # <<>> /\ dir[Len(dir)] = "/" THEN dir \o name ELSE dir \o <<"/">> \o name

\* Path::file_name: the last component of the path
RECURSIVE PathFileName(_)
PathFileName(path) ==
    IF \E i \in 1..Len(path) : path[i] = "/" THEN PathFileName(Tail(path)) ELSE path

\* save_image_to_file: Err when the data does not decode or the file system
\* refuses, else the path of the written file
save_image_to_file(records, id, b64, dir_path, fails) ==
    IF ~DecodesOk(b64) \/ fails THEN NoneVal
    ELSE SomeVal(PathJoin(dir_path, ImageFileName(records, id)))

\* the opening of the image markup, "![" alt text "](" ; the alt text (three
\* Hangul syllables in the source) is kept as one token
ALT_TEXT == <<"!", "[", "image", "]", "(">>
DataUri(mime_type, b64) ==
    ALT_TEXT \o <<"d", "a", "t", "a", ":">> \o mime_type
        \o <<";", "b", "a", "s", "e", "6", "4", ",">> \o b64 \o <<")">>
FileLink(file_name) ==
    ALT_TEXT \o <<"i", "m", "a", "g", "e", "s", "/">> \o file_name \o <<")">>

(* ------------------- format_image_markdown: inputs -------------------- *)
ImgPrefixes ==
    { <<>>, PNG_SIGNATURE, <<"i", "V", "B", "O", "R">>, <<"i", "V", "B", "O", "R", "W">>,
      JPEG_SIGNATURE, <<"/", "9", "j">>, BMP_SIGNATURE, <<"Q">>,
      <<"R", "0", "l", "G", "O", "D">>, <<" ", "i", "V", "B", "O", "R", "w">> }
ImgTails == {Repeat("A", n) : n \in 0..MaxImgTail} \cup {<<"!">>}
ImgDirs == {NoneVal, SomeVal(<<"o", "u", "t">>), SomeVal(<<"a", "/", "b", "/">>)}
ImgIds == {1, 43981}
ImgRecords ==
    { <<>>,
      << [kind |-> "Link", binary_data_id |-> 1, extension |-> <<"b", "m", "p">>],
         [kind |-> "Embedding", binary_data_id |-> 1, extension |-> <<"p", "n", "g">>] >> }

InitImage ==
    /\ \E prefix \in ImgPrefixes, tail \in ImgTails : base64_data = prefix \o tail
    /\ image_output_dir \in ImgDirs
    /\ bindata_id \in ImgIds
    /\ bin_data \in ImgRecords
    /\ fs_fails \in BOOLEAN
    /\ markdown = NoneVal
    /\ img_pc = "start"
    /\ ParseIdle
    /\ overflow_checks = FALSE
    /\ DetIdle
    /\ data = <<>>
    /\ ChartIdle
    /\ DocIdle
    /\ text = <<>>
    /\ control_char_positions = <<>>
    /\ sorted_positions = <<>>
    /\ last_char_pos = 0
    /\ para_text_result = <<>>
    /\ seg_pc = "idle"
    /\ use_html = FALSE
    /\ table = NoTable
    /\ output = NoOutput
    /\ tbl_pc = "idle"

notImage == <<segVars, tblVars, use_html, parseVars, detVars, chartVars, docVars>>
imgInputs == <<base64_data, image_output_dir, bindata_id, bin_data, fs_fails>>

(* ------------------- format_image_markdown: actions ------------------- *)
\* image_output_dir is None: the image is embedded as a data URI
FormatEmbedded ==
    /\ img_pc = "start"
    /\ ~image_output_dir.some
    /\ markdown' = SomeVal(DataUri(detect_mime_type_from_base64(base64_data), base64_data))
    /\ img_pc' = "done"
    /\ UNCHANGED <<imgInputs, notImage>>

\* Some(dir_path) and the image was saved: a link to images/<file name>
FormatSaved ==
    /\ img_pc = "start"
    /\ image_output_dir.some
    /\ LET saved == save_image_to_file(bin_data, bindata_id, base64_data,
                                       image_output_dir.val, fs_fails)
       IN  /\ saved.some
           /\ markdown' = SomeVal(FileLink(PathFileName(saved.val)))
    /\ img_pc' = "done"
    /\ UNCHANGED <<imgInputs, notImage>>

\* Some(dir_path) and saving failed: fall back to the data URI
FormatFallback ==
    /\ img_pc = "start"
    /\ image_output_dir.some
    /\ ~save_image_to_file(bin_data, bindata_id, base64_data,
                           image_output_dir.val, fs_fails).some
    /\ markdown' = SomeVal(DataUri(detect_mime_type_from_base64(base64_data), base64_data))
    /\ img_pc' = "done"
    /\ UNCHANGED <<imgInputs, notImage>>

NextImage ==
    \/ FormatEmbedded
    \/ FormatSaved
    \/ FormatFallback

SpecImage == InitImage /\ [][NextImage]_vars

(* ------------------- format_image_markdown: claims -------------------- *)
\* the first n characters of s are exactly sig
Leading(s, sig) ==
    Len(s) >= Len(sig) /\ \A i \in 1..Len(sig) : s[i] = sig[i]

SniffedMime(b64) ==
    CASE Leading(b64, PNG_SIGNATURE) -> IMAGE_PNG
      [] ~Leading(b64, PNG_SIGNATURE) /\ Leading(b64, JPEG_SIGNATURE) -> IMAGE_JPEG
      [] ~Leading(b64, PNG_SIGNATURE) /\ ~Leading(b64, JPEG_SIGNATURE)
             /\ Leading(b64, BMP_SIGNATURE) -> IMAGE_BMP
      [] OTHER -> OCTET_STREAM

\* C21: base64 data beginning with "iVBORw" is image/png, else with "/9j/"
\* image/jpeg, else with "Qk" image/bmp, else application/octet-stream; and
\* with no output directory the image is rendered as the data URI
\* ![image](data:<that MIME type>;base64,<the data>).
C21_MimeSniffing ==
    /\ detect_mime_type_from_base64(base64_data) = SniffedMime(base64_data)
    /\ (img_pc = "done" /\ ~image_output_dir.some)
           => markdown.val =
                  ALT_TEXT \o <<"d", "a", "t", "a", ":">> \o SniffedMime(base64_data)
                      \o <<";", "b", "a", "s", "e", "6", "4", ",">> \o base64_data
                      \o <<")">>

\* a JPEG embedded with no output directory
C21_Witness ==
    /\ img_pc = "done" /\ ~image_output_dir.some
    /\ base64_data = <<"/", "9", "j", "/">>
    /\ markdown.val = ALT_TEXT \o <<"d", "a", "t", "a", ":">> \o IMAGE_JPEG
                          \o <<";", "b", "a", "s", "e", "6", "4", ",", "/", "9", "j", "/", ")">>

(* ===================== table: addresses and shape ===================== *)
\* the position a cell is addressed at, read as absolute grid coordinates
AbsAnchor(cells, i) == <<cells[i].row_address, cells[i].col_address>>

\* a cell claims its addressed position and every position of its span
AbsClaims(cells, i, p) ==
    \/ p = AbsAnchor(cells, i)
    \/ /\ cells[i].row_address <= p[1]
       /\ p[1] < cells[i].row_address + cells[i].row_span
       /\ cells[i].col_address <= p[2]
       /\ p[2] < cells[i].col_address + cells[i].col_span

\* an earlier cell (row-major order, ties by input order) claims the position
\* this cell is addressed at
SkippedByEarlier(cells, i) ==
    \E j \in 1..Len(cells) :
        ComesBefore(cells, j, i) /\ AbsClaims(cells, j, AbsAnchor(cells, i))

\* the cells of the table carry at least two different row addresses, so none
\* of the rows is inferred
ExplicitRows(cells) ==
    \E i, j \in 1..Len(cells) : cells[i].row_address # cells[j].row_address

\* C31: explicit addresses are zero-based absolute grid coordinates: a cell
\* addressed at (r, c) with r < R and c < C that no earlier cell displaces has
\* its content rendered at position (r, c) of the output, also when no cell of
\* the table is addressed at row 0 or at column 0.
C31_AbsoluteAddresses ==
    (TblDone /\ NonDegenerate(table) /\ ExplicitRows(table.cells)) =>
        \A i \in 1..Len(table.cells) :
            (/\ AbsAnchor(table.cells, i)
                    \in Positions(table.row_count, table.col_count)
             /\ ~SkippedByEarlier(table.cells, i)
             /\ ~IsBlank(get_cell_content(table.cells[i])))
                => RenderedAt(output, i, AbsAnchor(table.cells, i))

\* C32: every table with R >= 1, C >= 1 and a non-empty cell list that takes
\* the Markdown path, whatever its addresses, spans and cell text (a pipe or
\* a line separator in the text included), is written as exactly R
\* pipe-delimited row lines of exactly C cells each, with exactly one
\* separator line directly after the first row line.
C32_MarkdownGridShape ==
    (TblDone /\ NonDegenerate(table) /\ output.kind = "markdown") =>
        HasGridShape(output, table.row_count, table.col_count)

\* the rectangle a cell covers in the declared grid, from its anchor
CoversWithin(cells, j, p, R, C) ==
    LET a == Anchor(cells, j)
    IN  /\ a[1] <= p[1] /\ p[1] < Min(a[1] + cells[j].row_span, R)
        /\ a[2] <= p[2] /\ p[2] < Min(a[2] + cells[j].col_span, C)

\* merge resolution: the cells that survive, taken in row-major order; a cell
\* is skipped when a surviving earlier cell covers the position it is
\* addressed at, and cells addressed below the last row are never reached
RECURSIVE Surviving(_, _, _, _, _)
Surviving(cells, order, kept, R, C) ==
    IF order = <<>> THEN kept
    ELSE LET i == Head(order)
             a == Anchor(cells, i)
             skipped == \/ a[1] >= R
                        \/ /\ a[2] < C
                           /\ \E j \in kept : CoversWithin(cells, j, a, R, C)
         IN  Surviving(cells, Tail(order), IF skipped THEN kept ELSE kept \cup {i},
                       R, C)

Survivors(t) == Surviving(t.cells, SortedCells(t.cells), {}, t.row_count, t.col_count)

\* the surviving cells of a row, in row-major order
SurvivorsOfRow(t, r) ==
    SelectSeq(SortedCells(t.cells),
              LAMBDA i : i \in Survivors(t) /\ Anchor(t.cells, i)[1] = r)

HasAttr(td, name) == \E k \in 1..Len(td.attrs) : td.attrs[k][1] = name

\* C33: in the HTML path a row is emitted if and only if, after merge
\* resolution, at least one of its surviving cells has non-blank content; the
\* emitted row holds one <td> per surviving cell, and a <td> carries a colspan
\* (rowspan) attribute if and only if the cell's col_span (row_span) is > 1.
C33_HtmlRowFiltering ==
    (TblDone /\ output.kind = "html") =>
        /\ \A r \in 0..(table.row_count - 1) :
              (\E k \in 1..Len(output.rows) : output.rows[k].row_idx = r)
                  <=> \E i \in Survivors(table) :
                         /\ Anchor(table.cells, i)[1] = r
                         /\ ~IsBlank(get_cell_content(table.cells[i]))
        /\ \A k \in 1..Len(output.rows) :
              LET row == output.rows[k]
              IN  /\ [n \in 1..Len(row.tds) |-> row.tds[n].src]
                         = SurvivorsOfRow(table, row.row_idx)
                  /\ \A n \in 1..Len(row.tds) :
                        LET cell == table.cells[row.tds[n].src]
                        IN  /\ HasAttr(row.tds[n], "colspan") <=> cell.col_span > 1
                            /\ HasAttr(row.tds[n], "rowspan") <=> cell.row_span > 1

\* the cell "A" at (0,0) spans two rows and carries only a rowspan attribute;
\* the cell "B" addressed at (1,0) is skipped, so row 1 is not emitted
C33_Witness ==
    /\ TblDone /\ output.kind = "html"
    /\ table.row_count = 2 /\ Len(table.cells) = 2
    /\ AbsAnchor(table.cells, 1) = <<0, 0>> /\ table.cells[1].row_span = 2
    /\ table.cells[1].col_span = 1
    /\ AbsAnchor(table.cells, 2) = <<1, 0>>
    /\ ~IsBlank(get_cell_content(table.cells[1]))
    /\ ~IsBlank(get_cell_content(table.cells[2]))
    /\ Survivors(table) = {1}
    /\ Len(output.rows) = 1
    /\ output.rows[1].tds[1].attrs = << <<"rowspan", 2>> >>

(* ===================== segmenter: cursor and tokens =================== *)
\* the loop is at a marker / behind the last marker
AtMarker == seg_pc = "loop" /\ sorted_positions # <<>>
AtTail == seg_pc = "loop" /\ sorted_positions = <<>>

\* the characters at the offsets from .. to - 1 of the text
Slice(t, from, to) == SubSeq(t, from + 1, to)

\* one marker under the cursor rule: the text from the cursor up to the offset
\* (or up to the end, for an offset at or beyond the end) and the break token
\* are emitted, and the cursor moves behind the character at the offset
CursorRuleAtMarker ==
    AtMarker =>
        LET k == Head(sorted_positions).position
        IN  /\ para_text_result' =
                   para_text_result
                       \o Slice(text, last_char_pos, Min(k, Len(text)))
                       \o <<BreakToken(use_html)>>
            /\ last_char_pos' = IF k < Len(text) THEN k + 1 ELSE Len(text)

\* after the last marker the text from the cursor to the end is emitted
CursorRuleAtTail ==
    AtTail => para_text_result' = para_text_result \o Slice(text, last_char_pos, Len(text))

\* C34: after a marker at offset k < length(T) the cursor is k + 1 and the
\* character at k is not emitted; after a marker at offset >= length(T) the
\* cursor is length(T) and no character is consumed (the text up to the end
\* is emitted before the token); after the last marker the text from the
\* cursor to the end is emitted.
C34_CursorRule == [][CursorRuleAtMarker /\ CursorRuleAtTail]_vars

\* a cell of one paragraph holding one text run whose markers are break
\* markers at offsets inside the text
IsMarkedRun(cell) ==
    /\ Len(cell.paragraphs) = 1 /\ Len(cell.paragraphs[1]) = 1
    /\ LET rec == cell.paragraphs[1][1]
       IN  /\ rec.kind = "ParaText"
           /\ rec.control_char_positions # <<>>
           /\ \A k \in 1..Len(rec.control_char_positions) :
                 /\ IsBreak(rec.control_char_positions[k])
                 /\ rec.control_char_positions[k].position < Len(rec.text)

\* the text run with the token at the offset of every marker
WithTokens(rec, token) ==
    [k \in 1..Len(rec.text) |->
        IF \E n \in 1..Len(rec.control_char_positions) :
              rec.control_char_positions[n].position = k - 1
        THEN token ELSE rec.text[k]]

\* what the output shows for cell i, wherever it is rendered
RenderedContents(out, i) ==
    IF out.kind = "markdown"
    THEN {out.grid[p].content : p \in {q \in DOMAIN out.grid : out.grid[q].src = i}}
    ELSE UNION {{out.rows[r].tds[k].html :
                    k \in {n \in 1..Len(out.rows[r].tds) : out.rows[r].tds[n].src = i}} :
                r \in 1..Len(out.rows)}

\* C35: when the table is rendered with HTML requested, each break marker of
\* a cell's text run gives <br> at its offset in the cell's output; when the
\* table is rendered as plain Markdown it gives a single space there.
C35_BreakTokenByFlavour ==
    (TblDone /\ (output.kind = "markdown" \/ (output.kind = "html" /\ use_html))) =>
        \A i \in 1..Len(table.cells) :
            IsMarkedRun(table.cells[i]) =>
                \A c \in RenderedContents(output, i) :
                    c = WithTokens(table.cells[i].paragraphs[1][1],
                                   IF output.kind = "html" THEN "<br>" ELSE " ")

(* ================== parse_sections: order of sections ================= *)
MaxMembers == 3   \* most members of an archive

\* the member names explored: sections 0, 1, 2 and 10, a section-like name
\* without a number, and a member that is no section
MemberNames ==
    << SectionName(<<"0">>), SectionName(<<"1">>), SectionName(<<"2">>),
       SectionName(<<"1", "0">>), SectionName(<<>>), HEADER_NAME,
       SectionName(<<"0", "3">>), SectionName(<<"2", "0">>) >>

\* each member holds one paragraph with a letter of its own
MemberLetter(name) == Letters[CHOOSE k \in 1..Len(MemberNames) : MemberNames[k] = name]
MemberFile(name) == Content(ParaEl(TextRun(<<MemberLetter(name)>>)) \o <<EofEv>>)

\* archives whose members come in any order; everything else is in order
InitSections ==
    /\ \E n \in 1..MaxMembers :
          \E pick \in [1..n -> 1..Len(MemberNames)] :
             /\ \A i, j \in 1..n : i # j => pick[i] # pick[j]
             /\ LET file_names == [i \in 1..n |-> MemberNames[pick[i]]]
                    members == SelectSeq(file_names, IsSectionFile)
                IN  container =
                        SomeVal([zip_ok |-> TRUE, mimetype |-> Absent,
                                 version_xml |-> Absent,
                                 header_xml |-> Content(<<EofEv>>),
                                 file_names |-> file_names,
                                 section_files |->
                                     [i \in 1..Len(members) |-> MemberFile(members[i])],
                                 bindata |-> <<>>, preview |-> Absent])
    /\ overflow_checks \in BOOLEAN
    /\ document = NoneVal
    /\ sections = <<>>
    /\ doc_result = NoneVal
    /\ doc_pc = "open"
    /\ ParseIdle
    /\ DetIdle
    /\ data = <<>>
    /\ ChartIdle
    /\ text = <<>>
    /\ control_char_positions = <<>>
    /\ sorted_positions = <<>>
    /\ last_char_pos = 0
    /\ para_text_result = <<>>
    /\ seg_pc = "idle"
    /\ use_html = FALSE
    /\ table = NoTable
    /\ output = NoOutput
    /\ tbl_pc = "idle"
    /\ ImgIdle

SpecSections == InitSections /\ [][NextDoc]_vars

\* the digits N of a member name Contents/section<N>.xml, if it has that form
NumberPart(name) == SubSeq(name, Len(CONTENTS_SECTION) + 1, Len(name) - Len(XML_SUFFIX))

IsNumbered(name) ==
    /\ IsSectionFile(name)
    /\ Len(name) > Len(CONTENTS_SECTION) + Len(XML_SUFFIX)
    /\ \A i \in 1..Len(NumberPart(name)) : IsDigit(NumberPart(name)[i])

NumberOf(name) == DigitsValue(NumberPart(name), 0)

\* the section members of the archive, each named Contents/section<N>.xml
SectionMembers == {container.val.file_names[i] : i \in 1..Len(container.val.file_names)}
                      \cap {MemberNames[k] : k \in {j \in 1..Len(MemberNames) :
                                                       IsSectionFile(MemberNames[j])}}

AllNumbered == \A name \in SectionMembers : IsNumbered(name)

\* the member the k-th stored section was parsed from
ParsedFrom(stored, k) ==
    {name \in SectionMembers :
        stored[k].paragraphs
            = parse_section_xml(MemberFile(name).content, overflow_checks).paragraphs}

\* the sections are stored in ascending order of N, each with its position
InNumberOrder(stored) ==
    /\ \A k \in 1..Len(stored) :
          /\ stored[k].index = k - 1
          /\ ParsedFrom(stored, k) # {}
    /\ \A j, k \in 1..Len(stored) :
          j < k => \A a \in ParsedFrom(stored, j), b \in ParsedFrom(stored, k) :
                      NumberOf(a) <= NumberOf(b)

\* C36: the sections are parsed, and stored in the document, in ascending
\* order of the number N of their member name Contents/section<N>.xml
\* (numeric order: section10 follows section2), one Section per such member,
\* and the index of each Section is its 0-based position in that order.
C36_SectionOrder ==
    AllNumbered =>
        /\ InNumberOrder(sections)
        /\ (doc_pc = "done" /\ doc_result.val.kind = "Ok") =>
              /\ InNumberOrder(doc_result.val.document.body_text.val)
              /\ Len(doc_result.val.document.body_text.val) = Cardinality(SectionMembers)

\* the archive lists section10, section2, section0: they are stored as
\* section0, section2, section10 with the indices 0, 1, 2
C36_Witness ==
    /\ doc_pc = "done" /\ doc_result.val.kind = "Ok"
    /\ container.val.file_names
           = <<SectionName(<<"1", "0">>), SectionName(<<"2">>), SectionName(<<"0">>)>>
    /\ LET stored == doc_result.val.document.body_text.val
       IN  /\ Len(stored) = 3
           /\ ParsedFrom(stored, 1) = {SectionName(<<"0">>)}
           /\ ParsedFrom(stored, 2) = {SectionName(<<"2">>)}
           /\ ParsedFrom(stored, 3) = {SectionName(<<"1", "0">>)}
           /\ stored[3].index = 2

\* some cell is addressed, or spans, beyond the declared grid
ReachesBeyond(t) ==
    \E i \in 1..Len(t.cells) :
        \/ Anchor(t.cells, i)[1] + t.cells[i].row_span > t.row_count
        \/ Anchor(t.cells, i)[2] + t.cells[i].col_span > t.col_count

\* C37: for every table with R >= 1, C >= 1 and a non-empty cell list,
\* whatever its addresses and spans (addresses or address + span beyond R or
\* C, more inferred rows than R), the coverage grid of the HTML path and the
\* content grid of the Markdown path are read and written only at positions
\* (row, col) with row < R and col < C.
C37_GridAccessInBounds ==
    (TblDone /\ NonDegenerate(table)) =>
        output.touched \subseteq Positions(table.row_count, table.col_count)

\* a cell whose span reaches beyond the grid was written, and a cell addressed
\* beyond the last column was passed over
C37_Witness ==
    /\ TblDone /\ NonDegenerate(table)
    /\ Len(table.cells) = 2
    /\ Anchor(table.cells, 1) = <<0, 0>>
    /\ table.cells[1].row_span > table.row_count
    /\ Anchor(table.cells, 2)[2] >= table.col_count
    /\ output.kind = "html"
    /\ <<table.row_count - 1, 0>> \in output.touched

\* the number of break markers of a list
BreakCount(marks) == Cardinality({i \in 1..Len(marks) : IsBreak(marks[i])})

\* a is b with some of its elements left out
RECURSIVE IsSubsequence(_, _)
IsSubsequence(a, b) ==
    IF a = <<>> THEN TRUE
    ELSE IF b = <<>> THEN FALSE
    ELSE IF Head(a) = Head(b) THEN IsSubsequence(Tail(a), Tail(b))
    ELSE IsSubsequence(a, Tail(b))

\* s without the elements at the indices in P
Without(s, P) == SelectSeq([i \in 1..Len(s) |-> <<i, s[i]>>], LAMBDA e : e[1] \notin P)

\* the output holds n break tokens, and what remains besides them is the
\* input text with some characters left out
TokensAndText(out, t, n, token) ==
    \E P \in SUBSET (1..Len(out)) :
        /\ Cardinality(P) = n
        /\ \A p \in P : out[p] = token
        /\ IsSubsequence([k \in 1..Len(Without(out, P)) |-> Without(out, P)[k][2]], t)

\* the cursor does not move backwards and stays within the text
CursorAdvances == last_char_pos <= last_char_pos' /\ last_char_pos' <= Len(text)

\* C38: for a marker list with at least one break marker the segmenter emits
\* exactly one break token per ParagraphBreak / LineBreak marker (duplicates
\* and out-of-range offsets included) and none for a marker of another kind;
\* the cursor never moves backwards and never exceeds the text length; the
\* emitted text characters are a subsequence of the input text, in order.
C38_SegmenterInvariants ==
    /\ []((SegDone /\ HasBreaks(control_char_positions)) =>
              TokensAndText(para_text_result, text,
                            BreakCount(control_char_positions), BreakToken(use_html)))
    /\ [](last_char_pos <= Len(text))
    /\ [][CursorAdvances]_vars

\* two break markers at the same offset: two tokens, and the character at the
\* offset left out
C38_Witness ==
    /\ SegDone /\ use_html
    /\ text = <<"A", "B", "C">>
    /\ control_char_positions = <<[position |-> 1, code |-> LINE_BREAK],
                                  [position |-> 1, code |-> PARA_BREAK]>>
    /\ para_text_result = <<"A", "<br>", "<br>", "C">>

(* ------------------ section parser: nested tables --------------------- *)
\* a text without its line separators
RECURSIVE NoBreaks(_)
NoBreaks(s) ==
    IF s = <<>> THEN <<>>
    ELSE (IF Head(s) = "\n" THEN <<>> ELSE <<Head(s)>>) \o NoBreaks(Tail(s))

\* the table closed by the event about to be read: the closes of its
\* non-empty rows and of their cells, by position in the document
ClosingTable == OpenOf(reader_pos + 1)
ClosingRows == RowsOfTable(ClosingTable, reader_pos)
ClosingCells == UNION {CellsOfRow(OpenOf(r), r) : r \in ClosingRows}

\* the text of the cell closed at c: everything inside it, before and behind a
\* table nested in it, the nested table's own text left out
CellTextOf(c) == TextWithin(OpenOf(c), OpenOf(c) + 1, c - 1)

\* the Table emitted at the close holds each of these rows with all its cells
RowsKept ==
    LET t == paragraphs'[Len(paragraphs')][1].table
    IN  ClosingRows # {} =>
            /\ paragraphs' # paragraphs
            /\ IsTablePara(paragraphs'[Len(paragraphs')])
            /\ t.row_count = Cardinality(ClosingRows)
            /\ Len(t.cells) = Cardinality(ClosingCells)
            /\ \A j \in 1..Len(t.cells) :
                   NoBreaks(t.cells[j].paragraphs[1][1].text)
                       = CellTextOf(Nth(ClosingCells, j))

\* C39: no row of a table is lost to nesting: each non-empty row closed
\* between a table's open and its matching close is contained, with all its
\* cells, in the Table emitted at that close, also when another table is
\* opened and closed inside one of its cells, and the text of the outer
\* table's cells behind the nested table is still part of those cells.
C39_NoRowLostToNesting ==
    [][ (/\ ReadingTag("End", T_tbl)
         /\ ClosingTable # 0
         /\ IsStart(ClosingTable, T_tbl)
         /\ parse_result' = "running") => RowsKept ]_vars

(* ------------------ section parser: balanced input -------------------- *)
\* streams with a paragraph close placed after any number of their events (a
\* close without an open, or an early close that leaves the original one
\* without an open), the complete streams, and streams ending in an error
InitBalance ==
    /\ \E d \in 1..Len(Docs) :
          \/ \E k \in 0..Len(Docs[d]) :
                 events = Inserted(Docs[d], k, EndEv(Hp(T_p)))
          \/ \E last \in {EofEv, ErrEv} :
                 events = Truncated(Docs[d], Len(Docs[d]), last)
    /\ overflow_checks \in BOOLEAN
    /\ reader_pos = 0
    /\ paragraphs = <<>>
    /\ current_text = <<>>
    /\ in_text = FALSE
    /\ in_table = FALSE
    /\ in_cell = FALSE
    /\ in_caption = FALSE
    /\ in_picture = FALSE
    /\ current_image_ref = NoneVal
    /\ table_rows = <<>>
    /\ current_row = <<>>
    /\ current_cell = HwpxCellDefault
    /\ table_caption = <<>>
    /\ para_depth = 0
    /\ parse_result = "running"
    /\ section = NoneVal
    /\ text = <<>>
    /\ control_char_positions = <<>>
    /\ sorted_positions = <<>>
    /\ last_char_pos = 0
    /\ para_text_result = <<>>
    /\ seg_pc = "idle"
    /\ use_html = FALSE
    /\ table = NoTable
    /\ output = NoOutput
    /\ tbl_pc = "idle"
    /\ ImgIdle
    /\ DetIdle
    /\ data = <<>>
    /\ ChartIdle
    /\ DocIdle

SpecBalance == InitBalance /\ [][NextParse]_vars

\* the elements left open by a stream, or "bad" once a close does not match
\* the innermost open element
RECURSIVE Nesting(_, _)
Nesting(evs, stack) ==
    IF evs = <<>> THEN [ok |-> TRUE, stack |-> stack]
    ELSE LET e == Head(evs)
         IN  IF e.kind = "Start" THEN Nesting(Tail(evs), Append(stack, e.name))
             ELSE IF e.kind = "End"
             THEN (IF stack # <<>> /\ stack[Len(stack)] = e.name
                   THEN Nesting(Tail(evs), SubSeq(stack, 1, Len(stack) - 1))
                   ELSE [ok |-> FALSE, stack |-> stack])
             ELSE Nesting(Tail(evs), stack)

\* every close matches the innermost open element and nothing is left open
WellNested(evs) == Nesting(evs, <<>>).ok /\ Nesting(evs, <<>>).stack = <<>>

StateRestored ==
    /\ para_depth = 0
    /\ ~in_text /\ ~in_table /\ ~in_cell /\ ~in_caption

\* a paragraph close at depth 0 leaves the depth at 0 and emits nothing
StrayCloseIgnored ==
    (ReadingTag("End", T_p) /\ para_depth = 0)
        => para_depth' = 0 /\ paragraphs' = paragraphs

\* C40: the paragraph depth counter never goes below 0 (a paragraph close at
\* depth 0 leaves it at 0 and emits nothing), and after any well-nested event
\* stream the depth is 0 and in_text, in_table, in_cell and in_caption are
\* all false.
C40_StateRestored ==
    /\ [](para_depth >= 0)
    /\ [][StrayCloseIgnored]_vars
    /\ []((parse_result \in {"running", "Ok"} /\ WellNested(EventsRead))
              => StateRestored)

\* a well-nested stream holding a table inside a table was read to its end
C40_Witness ==
    /\ parse_result = "Ok"
    /\ events = NestedTableDoc \o <<EofEv>>
    /\ WellNested(events)
    /\ StateRestored

====
